---- MODULE Spec2Model ----
(***************************************************************************)
(* bookmeta-personal: the resolution pipeline (app/pipeline.py), the ISBN  *)
(* extractor (app/utils.py), the books/sources tables (app/db.py) and the  *)
(* CLC classifier (app/classify.py).                                       *)
(*                                                                         *)
(* A Python str is a sequence of one-character strings; None (for an       *)
(* Optional[str]) is the one-element sequence <<"None">>, which no text    *)
(* can equal because its element is not one character.  A character       *)
(* outside ASCII is written "u" and its code point ("u7b97" is U+7B97);   *)
(* a label of CLC_LABELS is written "label_" and its category letter.     *)
(***************************************************************************)
EXTENDS Integers, Sequences, FiniteSets, TLC

VARIABLES books, sources, pc, query, isbn_input, prov, detail, book, inTxn,
          result, calls, ncalls, prev, overlap,
          c_in, c_llm, c_out, c_used,
          _TRIED_LOAD, _NER_BACKEND, _NER_MODEL, n_loads,
          s_pc, s_in, s_text, s_ans, s_ner, s_out, s_calls,
          l_pc, l_query, l_isbn, l_split, search_candidates, l_p, l_q, l_res,
          l_detail, l_log, l_visited, l_result

vars == <<books, sources, pc, query, isbn_input, prov, detail, book, inTxn,
          result, calls, ncalls, prev, overlap,
          c_in, c_llm, c_out, c_used,
          _TRIED_LOAD, _NER_BACKEND, _NER_MODEL, n_loads,
          s_pc, s_in, s_text, s_ans, s_ner, s_out, s_calls,
          l_pc, l_query, l_isbn, l_split, search_candidates, l_p, l_q, l_res,
          l_detail, l_log, l_visited, l_result>>

pipeVars == <<books, sources, pc, query, isbn_input, prov, detail, book, inTxn,
              result, calls, ncalls, prev, overlap>>

clsVars == <<c_in, c_llm, c_out, c_used>>

\* app/nlp.py: the module's globals _TRIED_LOAD, _NER_BACKEND, _NER_MODEL,
\* and the calls of split_title_author
nlpVars == <<_TRIED_LOAD, _NER_BACKEND, _NER_MODEL, n_loads,
             s_pc, s_in, s_text, s_ans, s_ner, s_out, s_calls>>

\* app/pipeline.py, one call of search_and_ingest followed through the
\* provider loop call by call: the locals query, isbn_input, the pair of
\* split_title_author, search_candidates, the index of p, the index of q,
\* res[0], detail, the calls made to p so far, the providers the loop has
\* entered, what the call came to
loopVars == <<l_pc, l_query, l_isbn, l_split, search_candidates, l_p, l_q, l_res,
              l_detail, l_log, l_visited, l_result>>

-----------------------------------------------------------------------------
(* Bounds of the model. *)

\* threads that call search_and_ingest concurrently
NumProcs == 2
\* search_and_ingest calls started in one behaviour
MaxCalls == 2

Procs == 1..NumProcs

-----------------------------------------------------------------------------
(* Python values. *)

None == <<"None">>
NoneInt == -1

\* Python truthiness of an Optional[str] / Optional[int] / list
Truthy(s) == s # None /\ s # <<>>
TruthyInt(n) == n # NoneInt /\ n # 0

\* (s or "")
OrEmpty(s) == IF s = None THEN <<>> ELSE s

\* white space (u3000 is the ideographic space)
IsSpace(c) == c \in {" ", "\t", "\n", "u3000"}

RECURSIVE LStrip(_)
LStrip(s) == IF s # <<>> /\ IsSpace(Head(s)) THEN LStrip(Tail(s)) ELSE s

RECURSIVE RStrip(_)
RStrip(s) ==
    IF s # <<>> /\ IsSpace(s[Len(s)]) THEN RStrip(SubSeq(s, 1, Len(s) - 1)) ELSE s

\* str.strip()
Strip(s) == RStrip(LStrip(s))

\* s.replace(c, "")
RECURSIVE RemoveChar(_, _)
RemoveChar(s, c) ==
    IF s = <<>> THEN <<>>
    ELSE IF Head(s) = c THEN RemoveChar(Tail(s), c)
    ELSE <<Head(s)>> \o RemoveChar(Tail(s), c)

\* sep.join(list)
RECURSIVE Join(_, _)
Join(sep, l) ==
    IF l = <<>> THEN <<>>
    ELSE IF Len(l) = 1 THEN l[1]
    ELSE l[1] \o sep \o Join(sep, Tail(l))

Max(S) == CHOOSE m \in S : \A n \in S : n <= m

\* the one element of a set {e(x) : x \in {v}}: e(v), with v evaluated once
The(S) == CHOOSE r \in S : TRUE

-----------------------------------------------------------------------------
(* app/utils.py: find_isbn *)

IsDigit(c) == c \in {"0", "1", "2", "3", "4", "5", "6", "7", "8", "9"}

\* 97[89]\d{10} matched at position i of t
Match13(t, i) ==
    /\ i + 12 <= Len(t)
    /\ t[i] = "9" /\ t[i + 1] = "7" /\ t[i + 2] \in {"8", "9"}
    /\ \A k \in 3..12 : IsDigit(t[i + k])

\* \d{9}[0-9Xx] matched at position i of t
Match10(t, i) ==
    /\ i + 9 <= Len(t)
    /\ \A k \in 0..8 : IsDigit(t[i + k])
    /\ IsDigit(t[i + 9]) \/ t[i + 9] \in {"X", "x"}

\* re.sub(r'[-\s]', '', text)
RECURSIVE DropHyphenSpace(_)
DropHyphenSpace(s) ==
    IF s = <<>> THEN <<>>
    ELSE IF Head(s) = "-" \/ IsSpace(Head(s)) THEN DropHyphenSpace(Tail(s))
    ELSE <<Head(s)>> \o DropHyphenSpace(Tail(s))

\* ISBN_RE.search(t): leftmost position, first alternative first
ISBN_RE_search(t) ==
    LET hits == {i \in 1..Len(t) : Match13(t, i) \/ Match10(t, i)}
    IN  IF hits = {} THEN None
        ELSE LET i == CHOOSE j \in hits : \A k \in hits : j <= k
             IN  IF Match13(t, i) THEN SubSeq(t, i, i + 12) ELSE SubSeq(t, i, i + 9)

find_isbn(text) ==
    IF text = <<>> THEN None ELSE ISBN_RE_search(DropHyphenSpace(text))

-----------------------------------------------------------------------------
(* app/classify.py.  Scores are kept times 10 (a hit adds 10 or 12) and      *)
(* confidences times 100 (95 is 0.95), so that every comparison is exact.    *)

LowerSeq ==
    <<"a", "b", "c", "d", "e", "f", "g", "h", "i", "j", "k", "l", "m",
      "n", "o", "p", "q", "r", "s", "t", "u", "v", "w", "x", "y", "z">>
UpperSeq ==
    <<"A", "B", "C", "D", "E", "F", "G", "H", "I", "J", "K", "L", "M",
      "N", "O", "P", "Q", "R", "S", "T", "U", "V", "W", "X", "Y", "Z">>

IsUpperLetter(c) == \E i \in 1..Len(UpperSeq) : UpperSeq[i] = c
IsLowerLetter(c) == \E i \in 1..Len(LowerSeq) : LowerSeq[i] = c

UpperChar(c) ==
    IF IsLowerLetter(c) THEN UpperSeq[CHOOSE i \in 1..Len(LowerSeq) : LowerSeq[i] = c]
    ELSE c
LowerChar(c) ==
    IF IsUpperLetter(c) THEN LowerSeq[CHOOSE i \in 1..Len(UpperSeq) : UpperSeq[i] = c]
    ELSE c

\* str.upper(), str.lower()
Upper(s) == [i \in 1..Len(s) |-> UpperChar(s[i])]
Lower(s) == [i \in 1..Len(s) |-> LowerChar(s[i])]

\* \w of the regex engine: everything but white space and punctuation
NonWordChars == {" ", "\t", "\n", ".", "-", ",", "/", ":", ";", "(", ")", "+"}
IsWordChar(c) == c \notin NonWordChars

\* kw in text
Contains(text, kw) ==
    \E i \in 0..(Len(text) - Len(kw)) : SubSeq(text, i + 1, i + Len(kw)) = kw

CLC_ORDER ==
    <<"A", "B", "C", "D", "E", "F", "G", "H", "I", "J", "K", "N", "O", "P", "Q", "R", "S", "T", "U", "V", "X", "Z">>

CLC_LABELS ==
    [c \in {CLC_ORDER[i] : i \in 1..Len(CLC_ORDER)} |->
        CASE c = "A" -> "label_A"
          [] c = "B" -> "label_B"
          [] c = "C" -> "label_C"
          [] c = "D" -> "label_D"
          [] c = "E" -> "label_E"
          [] c = "F" -> "label_F"
          [] c = "G" -> "label_G"
          [] c = "H" -> "label_H"
          [] c = "I" -> "label_I"
          [] c = "J" -> "label_J"
          [] c = "K" -> "label_K"
          [] c = "N" -> "label_N"
          [] c = "O" -> "label_O"
          [] c = "P" -> "label_P"
          [] c = "Q" -> "label_Q"
          [] c = "R" -> "label_R"
          [] c = "S" -> "label_S"
          [] c = "T" -> "label_T"
          [] c = "U" -> "label_U"
          [] c = "V" -> "label_V"
          [] c = "X" -> "label_X"
          [] c = "Z" -> "label_Z"]

KEYWORDS ==
    [c \in {CLC_ORDER[i] : i \in 1..Len(CLC_ORDER)} |->
        CASE c = "A" -> {<<"u9a6c", "u514b", "u601d">>,
                          <<"u5217", "u5b81">>,
                          <<"u6bdb", "u6cfd", "u4e1c">>,
                          <<"u9093", "u5c0f", "u5e73">>,
                          <<"u793e", "u4f1a", "u4e3b", "u4e49", "u7406", "u8bba">>}
          [] c = "B" -> {<<"u54f2", "u5b66">>,
                          <<"u5f62", "u800c", "u4e0a", "u5b66">>,
                          <<"u4f26", "u7406", "u5b66">>,
                          <<"u5b97", "u6559">>,
                          <<"u4f5b", "u6559">>,
                          <<"u57fa", "u7763", "u6559">>,
                          <<"u9053", "u6559">>,
                          <<"u5fc3", "u7075">>}
          [] c = "C" -> {<<"u793e", "u4f1a", "u79d1", "u5b66">>,
                          <<"u793e", "u4f1a", "u5b66">>,
                          <<"u8c03", "u67e5", "u7814", "u7a76", "u65b9", "u6cd5">>,
                          <<"u7edf", "u8ba1", "u5e74", "u9274">>,
                          <<"u793e", "u4f1a", "u95ee", "u9898">>,
                          <<"u516c", "u5171", "u7ba1", "u7406">>}
          [] c = "D" -> {<<"u653f", "u6cbb">>,
                          <<"u56fd", "u9645", "u5173", "u7cfb">>,
                          <<"u5916", "u4ea4">>,
                          <<"u6cd5", "u5b66">>,
                          <<"u5211", "u6cd5">>,
                          <<"u6c11", "u6cd5">>,
                          <<"u884c", "u653f", "u6cd5">>,
                          <<"u5baa", "u6cd5">>}
          [] c = "E" -> {<<"u519b", "u4e8b">>,
                          <<"u6218", "u4e89">>,
                          <<"u6218", "u7565">>,
                          <<"u6218", "u672f">>,
                          <<"u56fd", "u9632">>}
          [] c = "F" -> {<<"u7ecf", "u6d4e">>,
                          <<"u91d1", "u878d">>,
                          <<"u7ba1", "u7406", "u5b66">>,
                          <<"u4f1a", "u8ba1">>,
                          <<"u5e02", "u573a", "u8425", "u9500">>,
                          <<"u4f01", "u4e1a", "u6218", "u7565">>,
                          <<"u8d38", "u6613">>,
                          <<"u5b8f", "u89c2", "u7ecf", "u6d4e">>}
          [] c = "G" -> {<<"u6559", "u80b2", "u5b66">>,
                          <<"u79d1", "u666e", "u8bfb", "u7269">>,
                          <<"u56fe", "u4e66", "u9986", "u5b66">>,
                          <<"u6587", "u5316", "u7814", "u7a76">>,
                          <<"u4f53", "u80b2">>,
                          <<"u535a", "u7269", "u9986">>}
          [] c = "H" -> {<<"u8bed", "u8a00", "u5b66">>,
                          <<"u8bed", "u6cd5">>,
                          <<"u6c49", "u8bed">>,
                          <<"u82f1", "u8bed">>,
                          <<"u7ffb", "u8bd1">>,
                          <<"u8bcd", "u5178">>,
                          <<"u8bed", "u6599", "u5e93">>}
          [] c = "I" -> {<<"u6587", "u5b66">>,
                          <<"u5c0f", "u8bf4">>,
                          <<"u8bd7", "u6b4c">>,
                          <<"u6563", "u6587">>,
                          <<"u620f", "u5267">>,
                          <<"u6587", "u5b66", "u53f2">>,
                          <<"u6587", "u8bba">>,
                          <<"u540d", "u8457">>}
          [] c = "J" -> {<<"u827a", "u672f">>,
                          <<"u7ed8", "u753b">>,
                          <<"u96d5", "u5851">>,
                          <<"u6444", "u5f71">>,
                          <<"u97f3", "u4e50">>,
                          <<"u7535", "u5f71">>,
                          <<"u620f", "u66f2">>,
                          <<"u8bbe", "u8ba1">>}
          [] c = "K" -> {<<"u5386", "u53f2">>,
                          <<"u901a", "u53f2">>,
                          <<"u4e2d", "u56fd", "u53f2">>,
                          <<"u4e16", "u754c", "u53f2">>,
                          <<"u5730", "u7406">>,
                          <<"u8003", "u53e4">>,
                          <<"u6587", "u660e", "u53f2">>}
          [] c = "N" -> {<<"u81ea", "u7136", "u79d1", "u5b66">>,
                          <<"u79d1", "u7814", "u65b9", "u6cd5">>,
                          <<"u79d1", "u5b66", "u601d", "u60f3", "u53f2">>}
          [] c = "O" -> {<<"u6570", "u5b66">>,
                          <<"u7269", "u7406">>,
                          <<"u5316", "u5b66">>,
                          <<"u62d3", "u6251">>,
                          <<"u91cf", "u5b50">>,
                          <<"u4ee3", "u6570">>,
                          <<"u5fae", "u79ef", "u5206">>}
          [] c = "P" -> {<<"u5929", "u6587", "u5b66">>,
                          <<"u5730", "u8d28">>,
                          <<"u5730", "u7406", "u4fe1", "u606f">>,
                          <<"u6c14", "u8c61">>,
                          <<"u5730", "u9707">>,
                          <<"u5730", "u56fe", "u5b66">>}
          [] c = "Q" -> {<<"u751f", "u7269">>,
                          <<"u9057", "u4f20">>,
                          <<"u7ec6", "u80de">>,
                          <<"u751f", "u6001">>,
                          <<"u795e", "u7ecf", "u79d1", "u5b66">>,
                          <<"u751f", "u7269", "u5316", "u5b66">>}
          [] c = "R" -> {<<"u533b", "u5b66">>,
                          <<"u4e34", "u5e8a">>,
                          <<"u89e3", "u5256">>,
                          <<"u836f", "u5b66">>,
                          <<"u62a4", "u7406">>,
                          <<"u516c", "u5171", "u536b", "u751f">>,
                          <<"u75be", "u75c5">>}
          [] c = "S" -> {<<"u519c", "u4e1a">>,
                          <<"u4f5c", "u7269">>,
                          <<"u755c", "u7267">>,
                          <<"u6797", "u4e1a">>,
                          <<"u6e14", "u4e1a">>,
                          <<"u571f", "u58e4">>}
          [] c = "T" -> {<<"u8ba1", "u7b97", "u673a">>,
                          <<"u7b97", "u6cd5">>,
                          <<"u8f6f", "u4ef6", "u5de5", "u7a0b">>,
                          <<"u4eba", "u5de5", "u667a", "u80fd">>,
                          <<"u6df1", "u5ea6", "u5b66", "u4e60">>,
                          <<"u7f51", "u7edc">>,
                          <<"u7535", "u5b50">>,
                          <<"u673a", "u68b0">>,
                          <<"u6750", "u6599">>,
                          <<"u5de5", "u4e1a">>,
                          <<"u81ea", "u52a8", "u5316">>}
          [] c = "U" -> {<<"u4ea4", "u901a">>,
                          <<"u94c1", "u8def">>,
                          <<"u516c", "u8def">>,
                          <<"u822a", "u8fd0">>,
                          <<"u6e2f", "u53e3">>,
                          <<"u8f66", "u8f86", "u5de5", "u7a0b">>}
          [] c = "V" -> {<<"u822a", "u7a7a">>,
                          <<"u822a", "u5929">>,
                          <<"u822a", "u5929", "u5668">>,
                          <<"u706b", "u7bad">>,
                          <<"u536b", "u661f">>}
          [] c = "X" -> {<<"u73af", "u5883">>,
                          <<"u751f", "u6001", "u4fdd", "u62a4">>,
                          <<"u6c61", "u67d3">>,
                          <<"u5b89", "u5168", "u5de5", "u7a0b">>,
                          <<"u804c", "u4e1a", "u5b89", "u5168">>,
                          <<"u5e94", "u6025">>}
          [] c = "Z" -> {<<"u767e", "u79d1", "u5168", "u4e66">>,
                          <<"u5e74", "u9274">>,
                          <<"u8bba", "u6587", "u96c6">>,
                          <<"u7efc", "u5408">>,
                          <<"u5de5", "u5177", "u4e66">>}]

Categories == {CLC_ORDER[i] : i \in 1..Len(CLC_ORDER)}

\* _normalize: strip, the four book-title brackets to spaces, white space
\* runs to one space
BracketChars == {"u300a", "u300b", "u3010", "u3011"}

RECURSIVE CollapseSpaces(_)
CollapseSpaces(s) ==
    IF s = <<>> THEN <<>>
    ELSE IF IsSpace(Head(s))
         THEN <<" ">> \o CollapseSpaces(LStrip(s))
         ELSE <<Head(s)>> \o CollapseSpaces(Tail(s))

_normalize(s) ==
    LET s1 == Strip(OrEmpty(s))
        s2 == [i \in 1..Len(s1) |-> IF s1[i] \in BracketChars THEN " " ELSE s1[i]]
    IN  CollapseSpaces(s2)

\* _score_by_keywords: score (times 10) of every category
HeavyCategories == {"T", "O", "Q", "R", "P", "S", "X"}

_score_by_keywords(text) ==
    LET text_lc == Lower(text)
    IN  [c \in Categories |->
            Cardinality({kw \in KEYWORDS[c] : kw # <<>> /\ Contains(text_lc, Lower(kw))})
              * (IF c \in HeavyCategories THEN 12 ELSE 10)]

\* _pick_best: max(scores, key=...) goes through the keys in table order
\* and keeps the first one of maximal score
RECURSIVE MaxFrom(_, _, _)
MaxFrom(scores, i, best) ==
    IF i > Len(CLC_ORDER) THEN best
    ELSE IF scores[CLC_ORDER[i]] > scores[best]
         THEN MaxFrom(scores, i + 1, CLC_ORDER[i])
         ELSE MaxFrom(scores, i + 1, best)

\* mutant: of the keys of maximal score the last one of the table is kept
_pick_best_LastMax(scores) ==
    LET m == Max({scores[c] : c \in Categories})
        i == Max({j \in 1..Len(CLC_ORDER) : scores[CLC_ORDER[j]] = m})
    IN  <<CLC_ORDER[i], m>>

_pick_best(scores) ==
    LET code == MaxFrom(scores, 2, CLC_ORDER[1])
    IN  <<code, scores[code]>>

Unknown == "label_unknown"

\* _label: CLC_LABELS.get(code.upper(), <the label "unknown">)
_label(code) ==
    LET u == Upper(code)
    IN  IF Len(u) = 1 /\ u[1] \in Categories THEN CLC_LABELS[u[1]] ELSE Unknown

\* _CIP_CLC_RE / _CLC_RE matched at position i of t (the text is already
\* upper-cased by both callers): a letter at a word boundary, greedily up to
\* two more letters or digits, then greedily "." and digits
IsAlnum(c) == IsUpperLetter(c) \/ IsLowerLetter(c) \/ IsDigit(c)

ClcMatchAt(t, i) ==
    /\ IsUpperLetter(t[i]) \/ IsLowerLetter(t[i])
    /\ i = 1 \/ ~IsWordChar(t[i - 1])

RECURSIVE DigitRun(_, _)
DigitRun(t, i) == IF i <= Len(t) /\ IsDigit(t[i]) THEN 1 + DigitRun(t, i + 1) ELSE 0

ClcMatchEnd(t, i) ==
    LET n1 == IF i + 1 <= Len(t) /\ IsAlnum(t[i + 1])
              THEN (IF i + 2 <= Len(t) /\ IsAlnum(t[i + 2]) THEN 2 ELSE 1)
              ELSE 0
        e1 == i + n1
        nd == IF e1 + 1 <= Len(t) /\ t[e1 + 1] = "." THEN DigitRun(t, e1 + 2) ELSE 0
    IN  IF nd > 0 THEN e1 + 1 + nd ELSE e1

\* _CLC_RE.search(t).group(0), or None
_CLC_RE_search(t) ==
    LET hits == {i \in 1..Len(t) : ClcMatchAt(t, i)}
    IN  IF hits = {} THEN None
        ELSE LET i == CHOOSE j \in hits : \A k \in hits : j <= k
             IN  SubSeq(t, i, ClcMatchEnd(t, i))

_from_cip(cip) ==
    IF ~Truthy(cip) THEN None ELSE _CLC_RE_search(Upper(cip))

\* a classification: (code, label, confidence, source)
Result(code, label, conf, source) ==
    [code |-> code, label |-> label, conf |-> conf, source |-> source]
NoResult == [code |-> None, label |-> Unknown, conf |-> 0, source |-> "none"]

\* mutant: the steps of the confidence are at 2.5 and 4.5
RuleConf_LateSteps(code, score) ==
    IF score <= 0 THEN (IF code = "Z" THEN 50 ELSE 55)
    ELSE IF score < 25 THEN 65
    ELSE IF score < 45 THEN 80
    ELSE 92

\* the confidence (times 100) of the winning score (times 10)
RuleConf(code, score) ==
    IF score <= 0 THEN (IF code = "Z" THEN 50 ELSE 55)
    ELSE IF score < 20 THEN 65
    ELSE IF score < 40 THEN 80
    ELSE 92

classify_rule_based(title, authors, summary) ==
    LET t == _normalize(title)
        a == _normalize(Join(<<",">>, authors))
        s == _normalize(OrEmpty(summary))
    IN  The({IF blob = <<>> THEN Result(<<"Z">>, _label(<<"Z">>), 0, "rule")
              ELSE The({Result(<<best[1]>>, _label(<<best[1]>>),
                               RuleConf(best[1], best[2]), "rule") :
                        best \in {_pick_best(_score_by_keywords(blob))}}) :
             blob \in {Strip(t \o <<" ">> \o a \o <<" ">> \o s)}})

\* The external model as the environment gives it to one call: the switch
\* _ENABLE_LLM, whether OPENAI_API_KEY is set, whether the import or the
\* request raises, and the text of the answer.
LlmEnv(enabled, key, raises, text) ==
    [enabled |-> enabled, key |-> key, raises |-> raises, text |-> text]

\* mutant: the request is made without looking for OPENAI_API_KEY
classify_llm_NoKeyCheck(title, authors, summary, env) ==
    IF ~env.enabled THEN NoResult
    ELSE IF env.raises THEN NoResult
    ELSE LET text == Upper(Strip(OrEmpty(env.text)))
             code == _CLC_RE_search(text)
         IN  IF code = None THEN NoResult
             ELSE Result(code, _label(<<code[1]>>), 85, "llm")

classify_llm(title, authors, summary, env) ==
    IF ~env.enabled THEN NoResult
    ELSE IF ~env.key THEN NoResult
    ELSE IF env.raises THEN NoResult
    ELSE LET text == Upper(Strip(OrEmpty(env.text)))
             code == _CLC_RE_search(text)
         IN  IF code = None THEN NoResult
             ELSE Result(code, _label(<<code[1]>>), 85, "llm")

\* mutant: the external model is asked before the catalog number is read
classify_clc_LlmFirst(title, authors, summary, cip, env) ==
    LET code_from_cip == _from_cip(cip)
        llm_res == classify_llm(title, authors, summary, env)
    IN  IF llm_res # NoResult
        THEN [res |-> llm_res, stages |-> <<"classify_llm">>]
        ELSE IF Truthy(code_from_cip)
        THEN [res |-> Result(code_from_cip, _label(<<code_from_cip[1]>>), 95, "cip"),
              stages |-> <<"classify_llm", "_from_cip">>]
        ELSE [res |-> classify_rule_based(title, authors, summary),
              stages |-> <<"classify_llm", "_from_cip", "classify_rule_based">>]

\* classify_clc, with the stages it went through
classify_clc(title, authors, summary, cip, env) ==
    LET code_from_cip == _from_cip(cip)
        llm_res == classify_llm(title, authors, summary, env)
    IN  IF Truthy(code_from_cip)
        THEN [res |-> Result(code_from_cip, _label(<<code_from_cip[1]>>), 95, "cip"),
              stages |-> <<"_from_cip">>]
        ELSE IF llm_res # NoResult
        THEN [res |-> llm_res, stages |-> <<"_from_cip", "classify_llm">>]
        ELSE [res |-> classify_rule_based(title, authors, summary),
              stages |-> <<"_from_cip", "classify_llm", "classify_rule_based">>]

-----------------------------------------------------------------------------
(* app/utils.py: normalize_whitespace; app/nlp.py.  The characters of the  *)
(* patterns: u3010 u3011 and uff08 uff09 are the CJK brackets, u3001 the   *)
(* ideographic comma, uff1a the full-width colon, u2014 the em dash, u00b7 *)
(* the middle dot, u8457 u7f16 u8bd1 u7b49 and u4e3b u7f16 the role words  *)
(* of AUTHOR_HINTS.                                                        *)

\* re.sub(r'\s+', ' ', s or '').strip()
normalize_whitespace(s) == The({Strip(c) : c \in {CollapseSpaces(OrEmpty(s))}})

OpenBrackets == {"u3010", "[", "(", "uff08"}
CloseBrackets == {"u3011", "]", ")", "uff09"}

\* the first closing bracket of t, 0 when a line end comes first or t has none
FirstClose(t0) ==
    The({IF \A j \in 1..Len(t) : t[j] \notin CloseBrackets THEN 0
         ELSE The({IF \E k \in 1..(j - 1) : t[k] = "\n" THEN 0 ELSE j :
                   j \in {CHOOSE x \in 1..Len(t) :
                              /\ t[x] \in CloseBrackets
                              /\ \A y \in 1..(x - 1) : t[y] \notin CloseBrackets}}) :
         t \in {t0}})

\* re.sub(BRACKETS, '', s): an opening bracket up to the next closing one
RECURSIVE RemoveBrackets(_)
RemoveBrackets(s0) ==
    The({IF s = <<>> THEN <<>>
         ELSE The({IF Head(s) \in OpenBrackets /\ c > 0
                   THEN RemoveBrackets(SubSeq(s, c + 2, Len(s)))
                   ELSE <<Head(s)>> \o RemoveBrackets(Tail(s)) :
                   c \in {FirstClose(Tail(s))}}) :
         s \in {s0}})

OrdinalMarks == {".", "u3001", ")", "-", "uff1a", ":"}

\* re.sub(r'^\s*\d+[\.、\)\-：:]\s*', '', s)
DropOrdinal(s0) ==
    The({The({The({IF n >= 1 /\ n + 1 <= Len(t) /\ t[n + 1] \in OrdinalMarks
                   THEN LStrip(SubSeq(t, n + 2, Len(t))) ELSE s :
                   n \in {DigitRun(t, 1)}}) :
              t \in {LStrip(s)}}) :
         s \in {s0}})

\* re.sub(r'^\s*\d+\s*\.\s*', '', s)
DropOrdinalDot(s0) ==
    The({The({The({The({IF n >= 1 /\ u # <<>> /\ u[1] = "."
                        THEN LStrip(Tail(u)) ELSE s :
                        u \in {LStrip(SubSeq(t, n + 1, Len(t)))}}) :
                   n \in {DigitRun(t, 1)}}) :
              t \in {LStrip(s)}}) :
         s \in {s0}})

\* the replace() calls of clean_line
ListSeparators == {"+", "/", "u3001", "u3000", "\t"}
FoldSeparators(s0) ==
    The({[i \in 1..Len(s) |-> IF s[i] \in ListSeparators THEN " " ELSE s[i]] : s \in {s0}})

\* re.sub(r'\s{2,}', ' ', s): a run of two or more white space characters
RECURSIVE CollapseRuns(_)
CollapseRuns(s0) ==
    The({IF s = <<>> THEN <<>>
         ELSE IF Len(s) >= 2 /\ IsSpace(s[1]) /\ IsSpace(s[2])
              THEN <<" ">> \o CollapseRuns(LStrip(s))
              ELSE <<Head(s)>> \o CollapseRuns(Tail(s)) :
         s \in {s0}})

clean_line(s) ==
    The({Strip(c) :
         c \in {CollapseRuns(FoldSeparators(DropOrdinalDot(DropOrdinal(RemoveBrackets(OrEmpty(s))))))}})

\* a.endswith((u8457, u7f16, u8bd1, u4e3b u7f16))
RoleSuffixChars == {"u8457", "u7f16", "u8bd1"}
EndsWithRole(a) ==
    /\ a # <<>>
    /\ \/ a[Len(a)] \in RoleSuffixChars
       \/ Len(a) >= 2 /\ a[Len(a) - 1] = "u4e3b" /\ a[Len(a)] = "u7f16"

InSeq(x, l) == \E i \in 1..Len(l) : l[i] = x

\* the loop of _dedup_authors, out being the list built so far
RECURSIVE DedupInto(_, _)
DedupInto(authors0, out0) ==
    The({IF authors = <<>> THEN out
         ELSE The({The({IF a0 = <<>> \/ InSeq(a, out) THEN DedupInto(Tail(authors), out)
                        ELSE DedupInto(Tail(authors), Append(out, a)) :
                        a \in {IF EndsWithRole(a0) THEN SubSeq(a0, 1, Len(a0) - 1) ELSE a0}}) :
                   a0 \in {normalize_whitespace(Head(authors))}}) :
         authors \in {authors0}, out \in {out0}})

_dedup_authors(authors) == DedupInto(authors, <<>>)

\* str.strip(chars)
RECURSIVE LStripChars(_, _)
LStripChars(s, cs) == IF s # <<>> /\ Head(s) \in cs THEN LStripChars(Tail(s), cs) ELSE s

RECURSIVE RStripChars(_, _)
RStripChars(s, cs) ==
    IF s # <<>> /\ s[Len(s)] \in cs THEN RStripChars(SubSeq(s, 1, Len(s) - 1), cs) ELSE s

StripChars(s, cs) == The({RStripChars(LStripChars(t, cs), cs) : t \in {s}})

\* [\s:\uff1a\-\u2014\u00b7] of the first pattern of _heuristic_title_author
IsSeparator(c) == IsSpace(c) \/ c \in {":", "uff1a", "-", "u2014", "u00b7"}

\* AUTHOR_HINTS matches the last h characters of s
HintAtEnd(s, h) ==
    IF h = 1 THEN s # <<>> /\ s[Len(s)] \in {"u8457", "u7f16", "u8bd1", "u7b49"}
    ELSE Len(s) >= 2 /\ s[Len(s) - 1] = "u4e3b" /\ s[Len(s)] = "u7f16"

\* ^(.*?)[seps]+([^\d]{1,30})HINT$ with group 1 = s[1..i], the separators
\* s[i+1..j], group 2 = s[j+1..Len(s)-h]
HintMatchAt(s, i, j, h) ==
    /\ i < j /\ j < Len(s) - h
    /\ Len(s) - h - j <= 30
    /\ HintAtEnd(s, h)
    /\ \A k \in (i + 1)..j : IsSeparator(s[k])
    /\ \A k \in (j + 1)..(Len(s) - h) : ~IsDigit(s[k])

\* the match the regex engine finds: group 1 lazy, the separators and
\* group 2 greedy; <<0, 0, 0>> without a match
HintMatch(s0) ==
    The({The({IF M = {} THEN <<0, 0, 0>>
              ELSE The({The({The({<<i, j, h>> :
                                  h \in {IF <<i, j, 1>> \in M THEN 1 ELSE 2}}) :
                             j \in {Max({m[2] : m \in {x \in M : x[1] = i}})}}) :
                        i \in {CHOOSE x \in {m[1] : m \in M} : \A m \in M : x <= m[1]}}) :
              M \in {{m \in (0..Len(s)) \X (1..Len(s)) \X {1, 2} :
                        HintMatchAt(s, m[1], m[2], m[3])}}}) :
         s \in {s0}})

\* ^(.*?)[\s\(\uff08](.*?)[\)\uff09]$: the end of group 1, -1 without a match
ParenMatch(s0) ==
    The({The({IF Len(s) >= 2 /\ s[Len(s)] \in {")", "uff09"} /\ I # {}
              THEN CHOOSE i \in I : \A k \in I : i <= k
              ELSE -1 :
              I \in {{i \in 0..(Len(s) - 2) :
                        IsSpace(s[i + 1]) \/ s[i + 1] \in {"(", "uff08"}}}}) :
         s \in {s0}})

\* str.split()
RECURSIVE SplitWs(_)
SplitWs(s) ==
    The({IF t = <<>> THEN <<>>
         ELSE IF \A i \in 1..Len(t) : ~IsSpace(t[i]) THEN <<t>>
         ELSE The({<<SubSeq(t, 1, i - 1)>> \o SplitWs(SubSeq(t, i + 1, Len(t))) :
                   i \in {CHOOSE x \in 1..Len(t) :
                              IsSpace(t[x]) /\ \A y \in 1..(x - 1) : ~IsSpace(t[y])}}) :
         t \in {LStrip(s)}})

\* a (title, authors) pair
Pair(title, authors) == [title |-> title, authors |-> authors]

_heuristic_title_author(s0) ==
    The({The({IF m # <<0, 0, 0>>
              THEN Pair(StripChars(SubSeq(s, 1, m[1]), {" ", "-", "u2014", "u00b7", ":", "uff1a"}),
                        _dedup_authors(<<Strip(SubSeq(s, m[2] + 1, Len(s) - m[3]))>>))
              ELSE IF i2 >= 0 /\ Len(s) - 1 - (i2 + 1) <= 12
              THEN Pair(SubSeq(s, 1, i2), _dedup_authors(<<SubSeq(s, i2 + 2, Len(s) - 1)>>))
              ELSE IF Len(parts) >= 2 /\ Len(parts[Len(parts)]) <= 12
              THEN Pair(Join(<<" ">>, SubSeq(parts, 1, Len(parts) - 1)),
                        _dedup_authors(<<parts[Len(parts)]>>))
              ELSE Pair(s, <<>>) :
              m \in {HintMatch(s)}, i2 \in {ParenMatch(s)}, parts \in {SplitWs(s)}}) :
         s \in {clean_line(s0)}})

\* What a backend's model gives for a text: the person names and the names
\* of works it finds, or an exception.
NerAnswer(raises, persons, works) == [raises |-> raises, persons |-> persons, works |-> works]

\* the dict an extraction returns: title (or None), authors, confidence
\* (times 10)
NerResult(title, authors, confidence) ==
    [raised |-> FALSE, title |-> title, authors |-> authors, confidence |-> confidence]
NoNerResult == NerResult(None, <<>>, 0)

\* _extract_with_hanlp without its try block
_extract_with_hanlp_NoExcept(ans) ==
    IF ans.raises THEN [raised |-> TRUE]
    ELSE The({NerResult(None, authors, IF authors # <<>> THEN 7 ELSE 0) :
              authors \in {_dedup_authors(ans.persons)}})

_extract_with_hanlp(ans) ==
    IF ans.raises THEN NoNerResult
    ELSE The({NerResult(None, authors, IF authors # <<>> THEN 7 ELSE 0) :
              authors \in {_dedup_authors(ans.persons)}})

_extract_with_ltp(ans) ==
    IF ans.raises THEN NoNerResult
    ELSE The({NerResult(None, authors, IF authors # <<>> THEN 7 ELSE 0) :
              authors \in {_dedup_authors(ans.persons)}})

\* max(works, key=len): the first of the longest
Longest(works) ==
    LET i == CHOOSE x \in 1..Len(works) :
                /\ \A y \in 1..Len(works) : Len(works[y]) <= Len(works[x])
                /\ \A y \in 1..(x - 1) : Len(works[y]) < Len(works[x])
    IN  works[i]

_extract_with_spacy(ans) ==
    IF ans.raises THEN NoNerResult
    ELSE The({NerResult(title, authors,
                        (IF authors # <<>> THEN 6 ELSE 0) + (IF Truthy(title) THEN 3 ELSE 0)) :
              authors \in {_dedup_authors(ans.persons)},
              title \in {IF ans.works # <<>> THEN Longest(ans.works) ELSE None}})

\* _extract_title_author_via_ner once _try_load_ner has returned, backend
\* being the value of _NER_BACKEND ("" for None)
ExtractWith(backend, text, ans) ==
    IF text = <<>> THEN NoNerResult
    ELSE IF backend = "hanlp" THEN _extract_with_hanlp(ans)
    ELSE IF backend = "ltp" THEN _extract_with_ltp(ans)
    ELSE IF backend = "spacy" THEN _extract_with_spacy(ans)
    ELSE NoNerResult

TitleStripChars == {" ", "u300a", "u300b", "[", "]", "uff08", "uff09", "(", ")"}

\* the words that make a candidate look like a title
TitleWords ==
    {<<"u7814", "u7a76">>, <<"u7b80", "u53f2">>, <<"u6559", "u7a0b">>, <<"u5bfc", "u8bba">>,
     <<"u539f", "u7406">>, <<"u65b9", "u6cd5">>, <<"u6587", "u660e">>, <<"u4e16", "u754c">>,
     <<"u793e", "u4f1a">>, <<"u5386", "u53f2">>, <<"u7b97", "u6cd5">>, <<"u539f", "u672c">>,
     <<"u6587", "u5b66">>, <<"u6587", "u5316">>}

_title_score(t0) ==
    The({Len(t) - (IF EndsWithRole(t) THEN 2 ELSE 0)
                + (IF \E w \in TitleWords : Contains(t, w) THEN 2 ELSE 0) :
         t \in {Strip(t0)}})

\* rule_title, rule_authors of split_title_author: the rule-based pair,
\* the title without the brackets around it, the authors deduplicated again
RulePair(cleaned) ==
    The({Pair(StripChars(rule.title, TitleStripChars), _dedup_authors(rule.authors)) :
         rule \in {_heuristic_title_author(cleaned)}})

\* the arbitration with a threshold that a confidence of 0.6 does not reach
Arbitrate_AboveThreshold(cleaned, ner) ==
    The({IF ner_authors # <<>> /\ ner.confidence > 6
         THEN Pair(rule.title, ner_authors)
         ELSE rule :
         ner_authors \in {_dedup_authors(ner.authors)}, rule \in {RulePair(cleaned)}})

\* the arbitration of split_title_author between the extraction ner and the
\* rule-based pair, for the cleaned text
Arbitrate(cleaned, ner) ==
    The({IF ner_authors # <<>> /\ ner.confidence >= 6
         THEN The({Pair(IF title # <<>> THEN title ELSE cleaned, ner_authors) :
                   title \in {IF ner_title # <<>> /\ rule.title # <<>>
                              THEN (IF _title_score(rule.title) > _title_score(ner_title)
                                    THEN rule.title ELSE ner_title)
                              ELSE IF ner_title # <<>> THEN ner_title
                              ELSE rule.title}})
         ELSE rule :
         ner_title \in {StripChars(OrEmpty(ner.title), TitleStripChars)},
         ner_authors \in {_dedup_authors(ner.authors)},
         rule \in {RulePair(cleaned)}})

\* what a call of split_title_author came to: it returned the pair, or an
\* exception left it
Returned(pair) == [kind |-> "returned", pair |-> pair]
SplitRaised == [kind |-> "raised", pair |-> Pair(<<>>, <<>>)]
NoSplit == [kind |-> "none", pair |-> Pair(<<>>, <<>>)]

NoAnswer == NerAnswer(FALSE, <<>>, <<>>)

\* the module just imported (lines 12-14), no call of split_title_author yet
NlpInit ==
    /\ _TRIED_LOAD = FALSE
    /\ _NER_BACKEND = ""
    /\ _NER_MODEL = ""
    /\ n_loads = 0
    /\ s_pc = [r \in Procs |-> "idle"]
    /\ s_in = [r \in Procs |-> <<>>]
    /\ s_text = [r \in Procs |-> <<>>]
    /\ s_ans = [r \in Procs |-> NoAnswer]
    /\ s_ner = [r \in Procs |-> NoNerResult]
    /\ s_out = [r \in Procs |-> NoSplit]
    /\ s_calls = 0

-----------------------------------------------------------------------------
(* app/providers/base.py: BookDetail; app/db.py: Book, Source *)

BookDetail(title, authors, publisher, pub_year, isbn, edition, pages, summary, author_bio, language, cover_url, cip) ==
    [title |-> title, authors |-> authors, publisher |-> publisher,
     pub_year |-> pub_year, isbn |-> isbn, edition |-> edition, pages |-> pages,
     summary |-> summary, author_bio |-> author_bio, language |-> language,
     cover_url |-> cover_url, cip |-> cip]

\* Column(String, ..., default=<zh>) of Book.language
LanguageDefault == <<"u4e2d", "u6587">>

\* a Book row; a column the constructor does not name is NULL, but for
\* language, which takes the column default at INSERT
Book(id, title_std, authors_std, publisher, pub_year, isbn, edition, pages, summary, author_bio, language, cip) ==
    [id |-> id, title_std |-> title_std, authors_std |-> authors_std,
     publisher |-> publisher, pub_year |-> pub_year, isbn |-> isbn,
     edition |-> edition, pages |-> pages, summary |-> summary,
     author_bio |-> author_bio,
     language |-> IF language = None THEN LanguageDefault ELSE language,
     cover_path |-> None, cip |-> cip, clc |-> None]

Source(book_id, site) == [book_id |-> book_id, site |-> site]

\* the columns a resolution writes
BookColumns ==
    {"title_std", "authors_std", "publisher", "pub_year", "edition", "pages",
     "summary", "author_bio", "language", "cover_path", "cip", "clc"}

-----------------------------------------------------------------------------
(* app/config.py *)

PROVIDERS == <<"douban", "jd">>

-----------------------------------------------------------------------------
(* What the environment can hand to the pipeline: queries, and the details *)
(* the providers return.                                                   *)

Digits9 == <<"7", "0", "2", "0", "0", "0", "2", "2", "0">>
IsbnX == Digits9 \o <<"X">>
Isbnx == Digits9 \o <<"x">>
IsbnHyphen == <<"7", "-", "0", "2", "-", "0", "0", "0", "2", "2", "0", "-", "x">>
IsbnPadded == IsbnX \o <<" ">>
Isbn13 == <<"9", "7", "8", "7", "0", "2", "0", "0", "0", "2", "2", "0", "7">>

QueryTitle == <<"A", "B">>
Queries == {Isbnx, Isbn13, QueryTitle}

\* every field present
Full1(isbn) ==
    BookDetail(<<"T", "1">>, << <<"a", "1">> >>, <<"P", "1">>, 2001, isbn,
               <<"E", "1">>, 100, <<"S", "1">>, <<"B", "1">>, <<"z", "h">>,
               <<"c", "1">>, <<"T", "P", "3">>)
\* every field present, the texts with white space around them
Pad2(isbn) ==
    BookDetail(<<" ", "T", "2", " ">>, << <<"a", "2">>, <<"a", "3">> >>, <<"P", "2">>,
               2002, isbn, <<"E", "2">>, 200, <<" ", "S", "2">>, <<"B", "2", " ">>,
               <<"e", "n">>, <<"c", "2">>, <<"I", "2">>)
\* every field empty, zero or white space only
Blank(isbn) ==
    BookDetail(<<" ">>, <<>>, <<>>, 0, isbn, <<>>, 0, <<" ">>, <<" ">>, <<>>,
               <<>>, <<>>)
\* every optional field None
Absent(isbn) ==
    BookDetail(<<>>, <<>>, None, NoneInt, isbn, None, NoneInt, None, None, None,
               None, None)

DetailPool ==
    {Full1(IsbnX), Pad2(IsbnX), Blank(IsbnX), Absent(IsbnX),
     Full1(IsbnHyphen), Full1(IsbnPadded), Full1(None)}

\* what one provider call gives: it raises, it has nothing, or a detail
Raises(call) == [kind |-> "raise", call |-> call, detail |-> Absent(None)]
Nothing == [kind |-> "none", call |-> "", detail |-> Absent(None)]
Gives(d) == [kind |-> "detail", call |-> "", detail |-> d]

ByIsbnResponses == {Raises("get_by_isbn"), Nothing} \cup {Gives(d) : d \in DetailPool}
SearchResponses ==
    {Raises("search"), Raises("get_detail"), Raises("get_by_isbn"), Nothing}
        \cup {Gives(d) : d \in DetailPool}

\* the external model as the pipeline's classifier calls meet it
PipelineLlmEnvs ==
    {LlmEnv(TRUE, FALSE, FALSE, None), LlmEnv(TRUE, TRUE, FALSE, <<" ", "k", "\n">>)}

-----------------------------------------------------------------------------
(* app/pipeline.py *)

\* fetch_cover: "" without a url or when the download fails, else the
\* relative path covers/<slug>.jpg
fetch_cover(url, ok) ==
    IF ~Truthy(url) THEN <<>>
    ELSE IF ok THEN <<"c", "o", "v", "e", "r", "s", "/">> \o url \o <<".", "j", "p", "g">>
    ELSE <<>>

\* isbn = (d.isbn or "").strip() or None
IsbnKey(d) ==
    LET s == Strip(OrEmpty(d.isbn)) IN IF s = <<>> THEN None ELSE s

\* session.query(Book).filter(Book.isbn == isbn): the rows with that isbn
FindByIsbn(bs, isbn) == {b \in bs : b.isbn = isbn}

\* mutant: a detail without ISBN is merged into a row of the same title
FindExisting_ByTitle(bs, d) ==
    IF IsbnKey(d) = None THEN {b \in bs : b.title_std = OrEmpty(d.title)}
    ELSE FindByIsbn(bs, IsbnKey(d))

\* the book _get_or_create_book_by_detail updates instead of creating one:
\* the row of the detail's ISBN, and none for a detail without ISBN
FindExisting(bs, d) ==
    IF IsbnKey(d) = None THEN {} ELSE FindByIsbn(bs, IsbnKey(d))

\* Book(isbn=isbn, title_std=d.title or "", authors_std=",".join(d.authors or []))
NewBookByIsbn(id, isbn, d) ==
    Book(id, OrEmpty(d.title), Join(<<",">>, d.authors), None, NoneInt, isbn,
         None, NoneInt, None, None, None, None)

\* mutant: the last writer wins, whatever the detail's value
Merge_LastWriterWins(b, d) ==
    [b EXCEPT
       !.title_std = OrEmpty(d.title),
       !.authors_std = Join(<<",">>, d.authors),
       !.publisher = d.publisher,
       !.pub_year = d.pub_year,
       !.edition = d.edition,
       !.pages = d.pages,
       !.summary = d.summary,
       !.author_bio = d.author_bio,
       !.language = OrEmpty(d.language),
       !.cip = d.cip]

\* the field-by-field overwrite of a book found or created by ISBN
Merge(b, d) ==
    [b EXCEPT
       !.title_std = IF Strip(OrEmpty(d.title)) # <<>> THEN Strip(d.title) ELSE @,
       !.authors_std = IF Truthy(d.authors) THEN Join(<<",">>, d.authors) ELSE @,
       !.publisher = IF Truthy(d.publisher) THEN d.publisher ELSE @,
       !.pub_year = IF TruthyInt(d.pub_year) THEN d.pub_year ELSE @,
       !.edition = IF Truthy(d.edition) THEN d.edition ELSE @,
       !.pages = IF TruthyInt(d.pages) THEN d.pages ELSE @,
       !.summary = IF Strip(OrEmpty(d.summary)) # <<>> THEN Strip(d.summary) ELSE @,
       !.author_bio = IF Strip(OrEmpty(d.author_bio)) # <<>> THEN Strip(d.author_bio) ELSE @,
       !.language = IF Truthy(d.language) THEN d.language ELSE @,
       !.cip = IF Truthy(d.cip) THEN d.cip ELSE @]

\* the book created for a detail without ISBN
NewBookNoIsbn(id, d) ==
    Book(id, OrEmpty(d.title), Join(<<",">>, d.authors), d.publisher, d.pub_year,
         None, d.edition, d.pages,
         IF Strip(OrEmpty(d.summary)) = <<>> THEN None ELSE Strip(d.summary),
         IF Strip(OrEmpty(d.author_bio)) = <<>> THEN None ELSE Strip(d.author_bio),
         d.language, d.cip)

\* str.split(",")
RECURSIVE SplitComma(_)
SplitComma(s) ==
    LET cut == {i \in 1..Len(s) : s[i] = ","}
    IN  IF cut = {} THEN <<s>>
        ELSE LET i == CHOOSE j \in cut : \A k \in cut : j <= k
             IN  <<SubSeq(s, 1, i - 1)>> \o SplitComma(SubSeq(s, i + 1, Len(s)))

\* the cover path, set when the book has none and the fetch gave one
SetCover(b, rel_cover) ==
    IF Truthy(rel_cover) /\ ~Truthy(b.cover_path)
    THEN [b EXCEPT !.cover_path = rel_cover] ELSE b

\* mutant: the category is classified anew at every resolution
SetClc_Always(b, env) ==
    The({IF Truthy(code) /\ Strip(code) # <<>>
         THEN [b EXCEPT !.clc = Strip(code)] ELSE b :
         code \in {classify_clc(OrEmpty(b.title_std),
                                IF Truthy(b.authors_std) THEN SplitComma(b.authors_std)
                                ELSE <<>>,
                                OrEmpty(b.summary), b.cip, env).res.code}})

\* the category, classified when the book has none
SetClc(b, env) ==
    IF Truthy(b.clc) THEN b
    ELSE The({IF Truthy(code) /\ Strip(code) # <<>>
              THEN [b EXCEPT !.clc = Strip(code)] ELSE b :
              code \in {classify_clc(OrEmpty(b.title_std),
                                     IF Truthy(b.authors_std) THEN SplitComma(b.authors_std)
                                     ELSE <<>>,
                                     OrEmpty(b.summary), b.cip, env).res.code}})

\* mutant: no guard
IsbnMismatch_Never(isbn_in, d) == FALSE

\* the ISBN consistency guard: the detail's ISBN differs from the query's
IsbnMismatch(isbn_in, d) ==
    /\ Truthy(isbn_in)
    /\ Truthy(d.isbn)
    /\ Upper(RemoveChar(d.isbn, "-")) # Upper(RemoveChar(isbn_in, "-"))

\* mutant: the detail is persisted as the provider gave it
Backfill_Never(isbn_in, d) == d

\* detail.isbn = isbn_input when the provider gave none
Backfill(isbn_in, d) ==
    IF Truthy(isbn_in) /\ ~Truthy(d.isbn) THEN [d EXCEPT !.isbn = isbn_in] ELSE d

\* the try block of one provider: the direct ISBN lookup r1, then the
\* keyword search r2 when the lookup gave no detail
TryBlock(isbn_in, r1, r2) ==
    LET first == IF Truthy(isbn_in) THEN r1 ELSE Nothing
    IN  IF first.kind = "none" THEN r2 ELSE first

\* the id the store gives a new row
NextId(bs) == IF bs = {} THEN 1 ELSE Max({b.id : b \in bs}) + 1

-----------------------------------------------------------------------------
(* The provider loop of search_and_ingest (lines 130-177), call by call.   *)

\* app/providers/base.py: SearchResult, by the two fields the loop reads
SearchResult(url, isbn) == [url |-> url, isbn |-> isbn]
NoHit == SearchResult(None, None)

\* one call of a provider's method: the provider's index, the line of
\* pipeline.py that calls, the method, its argument, what it gave
Call(p, line, name, arg, gave) ==
    [p |-> p, line |-> line, name |-> name, arg |-> arg, gave |-> gave]

\* no call of search_and_ingest yet
LoopInit ==
    /\ l_pc = "idle"
    /\ l_query = <<>>
    /\ l_isbn = None
    /\ l_split = Pair(<<>>, <<>>)
    /\ search_candidates = <<>>
    /\ l_p = 1
    /\ l_q = 1
    /\ l_res = NoHit
    /\ l_detail = Nothing
    /\ l_log = <<>>
    /\ l_visited = <<>>
    /\ l_result = "pending"

-----------------------------------------------------------------------------
(* search_and_ingest, one call per thread at a time.  A call reaches the   *)
(* store at four places, and other threads run between them: the lookup    *)
(* by ISBN, the flush of a new row (the INSERT checks the unique index,    *)
(* and the writer has the database to itself until it commits), the        *)
(* commit of a found row, and the re-read after an IntegrityError.         *)

NoBook == [orig |-> Book(0, <<>>, <<>>, None, NoneInt, None, None, NoneInt, None, None, None, None),
           cur |-> Book(0, <<>>, <<>>, None, NoneInt, None, None, NoneInt, None, None, None, None)]
NoDetail == Absent(None)

Pending == [kind |-> "pending", id |-> 0, via |-> ""]
ReturnedNone == [kind |-> "none", id |-> 0, via |-> "loop"]
ReturnedId(id, via) == [kind |-> "id", id |-> id, via |-> via]
Raised(via) == [kind |-> "raised", id |-> 0, via |-> via]

ClassifyArgs(title, authors, summary, cip) ==
    [title |-> title, authors |-> authors, summary |-> summary, cip |-> cip]
NoArgs == ClassifyArgs(<<>>, <<>>, None, None)

Visit(p, outcome) == [p |-> p, outcome |-> outcome]

Init ==
    /\ books = {}
    /\ sources = <<>>
    /\ pc = [r \in Procs |-> "idle"]
    /\ query = [r \in Procs |-> <<>>]
    /\ isbn_input = [r \in Procs |-> None]
    /\ prov = [r \in Procs |-> 1]
    /\ detail = [r \in Procs |-> NoDetail]
    /\ book = [r \in Procs |-> NoBook]
    /\ inTxn = [r \in Procs |-> FALSE]
    /\ result = [r \in Procs |-> Pending]
    /\ calls = [r \in Procs |-> <<>>]
    /\ ncalls = 0
    /\ prev = [r \in Procs |-> [query |-> <<>>, res |-> Pending]]
    /\ overlap = [r \in Procs |-> FALSE]
    /\ c_in = NoArgs
    /\ c_llm = LlmEnv(FALSE, FALSE, FALSE, None)
    /\ c_out = NoResult
    /\ c_used = <<>>
    /\ NlpInit
    /\ LoopInit

Running(r) == pc[r] \notin {"idle", "done"}

\* search_and_ingest(q) is entered: init_db(), get_providers(), a new
\* session, the ISBN of the query.  prev keeps the thread's last call;
\* overlap tells that the call runs while another one does, both begun on
\* an empty table
Start(r, q) ==
    /\ pc[r] \in {"idle", "done"}
    /\ ncalls < MaxCalls
    /\ ncalls' = ncalls + 1
    /\ pc' = [pc EXCEPT ![r] = "try"]
    /\ query' = [query EXCEPT ![r] = q]
    /\ isbn_input' = [isbn_input EXCEPT ![r] = find_isbn(q)]
    /\ prov' = [prov EXCEPT ![r] = 1]
    /\ detail' = [detail EXCEPT ![r] = NoDetail]
    /\ book' = [book EXCEPT ![r] = NoBook]
    /\ inTxn' = [inTxn EXCEPT ![r] = FALSE]
    /\ result' = [result EXCEPT ![r] = Pending]
    /\ calls' = [calls EXCEPT ![r] = <<>>]
    /\ prev' = [prev EXCEPT ![r] = [query |-> query[r], res |-> result[r]]]
    /\ overlap' = [o \in Procs |->
          IF Running(o) \/ (o = r /\ \E x \in Procs : Running(x))
          THEN books = {} ELSE IF o = r THEN FALSE ELSE overlap[o]]
    /\ UNCHANGED <<books, sources>>
    /\ UNCHANGED clsVars
    /\ UNCHANGED nlpVars
    /\ UNCHANGED loopVars

\* the call returns res: the finally clause closes the session
Return(r, res) ==
    /\ pc' = [pc EXCEPT ![r] = "done"]
    /\ result' = [result EXCEPT ![r] = res]
    /\ detail' = [detail EXCEPT ![r] = NoDetail]
    /\ book' = [book EXCEPT ![r] = NoBook]
    /\ inTxn' = [inTxn EXCEPT ![r] = FALSE]
    /\ UNCHANGED prov

\* mutant: the loop tries the same provider again
Continue_SameProvider(r, txn) ==
    IF Len(calls[r]) < Len(PROVIDERS)
    THEN /\ pc' = [pc EXCEPT ![r] = "try"]
         /\ inTxn' = [inTxn EXCEPT ![r] = txn]
         /\ detail' = [detail EXCEPT ![r] = NoDetail]
         /\ UNCHANGED <<result, book, prov>>
    ELSE Return(r, ReturnedNone)

\* "continue": the next provider of the loop, or "return None" after the last
Continue(r, txn) ==
    IF prov[r] < Len(PROVIDERS)
    THEN /\ prov' = [prov EXCEPT ![r] = prov[r] + 1]
         /\ pc' = [pc EXCEPT ![r] = "try"]
         /\ inTxn' = [inTxn EXCEPT ![r] = txn]
         /\ detail' = [detail EXCEPT ![r] = NoDetail]
         /\ UNCHANGED <<result, book>>
    ELSE Return(r, ReturnedNone)

\* mutant: the provider's exception leaves search_and_ingest
OnProviderException_Escapes(r) == Return(r, Raised("provider"))

\* except Exception as e: session.rollback(); then "if not detail: continue"
OnProviderException(r) == Continue(r, FALSE)

\* "with session.begin()" and _get_or_create_book_by_detail(d) up to its
\* query: begin() raises InvalidRequestError when the session already has
\* a transaction; a book found by ISBN is merged, given its cover and its
\* category in memory
Locate(r, d) ==
    IF inTxn[r]
    THEN Return(r, Raised("begin"))
    ELSE LET found == FindExisting(books, d)
         IN  /\ inTxn' = [inTxn EXCEPT ![r] = TRUE]
             /\ detail' = [detail EXCEPT ![r] = d]
             /\ UNCHANGED <<result, prov>>
             /\ IF found # {}
                THEN \E b \in found : \E ok \in BOOLEAN : \E env \in PipelineLlmEnvs :
                        /\ book' = [book EXCEPT ![r] =
                              [orig |-> b,
                               cur |-> SetClc(SetCover(Merge(b, d),
                                              fetch_cover(d.cover_url, ok)), env)]]
                        /\ pc' = [pc EXCEPT ![r] = "commit"]
                ELSE /\ pc' = [pc EXCEPT ![r] = "insert"]
                     /\ UNCHANGED book

\* one iteration of "for p in providers" up to the first access to the
\* store: the provider's calls, the ISBN guard, the backfill, the lookup
TryProvider(r) ==
    /\ pc[r] = "try"
    /\ \E r1 \in (IF Truthy(isbn_input[r]) THEN ByIsbnResponses ELSE {Nothing}) :
       \E r2 \in (IF r1.kind = "none" THEN SearchResponses ELSE {Nothing}) :
          LET got == TryBlock(isbn_input[r], r1, r2)
              p == prov[r]
          IN  IF got.kind = "raise"
              THEN \* except Exception: session.rollback(); no detail
                   /\ calls' = [calls EXCEPT ![r] = Append(@, Visit(p, "exception"))]
                   /\ OnProviderException(r)
              ELSE IF got.kind = "none"
              THEN /\ calls' = [calls EXCEPT ![r] = Append(@, Visit(p, "no_detail"))]
                   /\ Continue(r, inTxn[r])
              ELSE IF IsbnMismatch(isbn_input[r], got.detail)
              THEN /\ calls' = [calls EXCEPT ![r] = Append(@, Visit(p, "mismatch"))]
                   /\ Continue(r, inTxn[r])
              ELSE /\ calls' = [calls EXCEPT ![r] = Append(@, Visit(p, "accepted"))]
                   /\ Locate(r, Backfill(isbn_input[r], got.detail))
    /\ UNCHANGED <<books, sources, query, isbn_input, ncalls, prev, overlap>>
    /\ UNCHANGED clsVars
    /\ UNCHANGED nlpVars
    /\ UNCHANGED loopVars

\* mutant: the new book is committed without its Source
Insert_BookOnly(r) ==
    /\ pc[r] = "insert"
    /\ LET isbn == IsbnKey(detail[r])
           d == detail[r]
       IN  IF isbn # None /\ FindByIsbn(books, isbn) # {}
           THEN /\ pc' = [pc EXCEPT ![r] = "reread"]
                /\ inTxn' = [inTxn EXCEPT ![r] = FALSE]
                /\ UNCHANGED <<books, sources, result, detail, prov, book>>
           ELSE \E ok \in BOOLEAN : \E env \in PipelineLlmEnvs :
                   LET id == NextId(books)
                       b0 == IF isbn # None THEN Merge(NewBookByIsbn(id, isbn, d), d)
                             ELSE NewBookNoIsbn(id, d)
                       b == SetClc(SetCover(b0, fetch_cover(d.cover_url, ok)), env)
                   IN  /\ books' = books \cup {b}
                       /\ UNCHANGED sources
                       /\ Return(r, ReturnedId(id, "commit"))
    /\ UNCHANGED <<query, isbn_input, calls, ncalls, prev, overlap>>
    /\ UNCHANGED clsVars
    /\ UNCHANGED nlpVars
    /\ UNCHANGED loopVars

\* session.add(b); session.flush() of a new book, and the rest of the
\* transaction: the merge, the cover, the category, the Source, the commit.
\* The INSERT of an isbn another row has raises IntegrityError, which rolls
\* the transaction back.
Insert(r) ==
    /\ pc[r] = "insert"
    /\ LET isbn == IsbnKey(detail[r])
           d == detail[r]
       IN  IF isbn # None /\ FindByIsbn(books, isbn) # {}
           THEN /\ pc' = [pc EXCEPT ![r] = "reread"]
                /\ inTxn' = [inTxn EXCEPT ![r] = FALSE]
                /\ UNCHANGED <<books, sources, result, detail, prov, book>>
           ELSE \E ok \in BOOLEAN : \E env \in PipelineLlmEnvs :
                   LET id == NextId(books)
                       b0 == IF isbn # None THEN Merge(NewBookByIsbn(id, isbn, d), d)
                             ELSE NewBookNoIsbn(id, d)
                       b == SetClc(SetCover(b0, fetch_cover(d.cover_url, ok)), env)
                   IN  /\ books' = books \cup {b}
                       /\ sources' = Append(sources, Source(id, PROVIDERS[prov[r]]))
                       /\ Return(r, ReturnedId(id, "commit"))
    /\ UNCHANGED <<query, isbn_input, calls, ncalls, prev, overlap>>
    /\ UNCHANGED clsVars
    /\ UNCHANGED nlpVars
    /\ UNCHANGED loopVars

\* the commit of a found book: the UPDATE sets the columns this session
\* changed, then the Source row
Update(r) ==
    /\ pc[r] = "commit"
    /\ IF \E b \in books : b.id = book[r].orig.id
       THEN \E row \in {b \in books : b.id = book[r].orig.id} :
               LET new == [f \in DOMAIN row |->
                             IF f \in BookColumns /\ book[r].cur[f] # book[r].orig[f]
                             THEN book[r].cur[f] ELSE row[f]]
               IN  /\ books' = (books \ {row}) \cup {new}
                   /\ sources' = Append(sources, Source(row.id, PROVIDERS[prov[r]]))
                   /\ Return(r, ReturnedId(row.id, "commit"))
       ELSE IF \E f \in BookColumns : book[r].cur[f] # book[r].orig[f]
       THEN \* the row is gone: the UPDATE matches no row, StaleDataError
            /\ Return(r, Raised("stale"))
            /\ UNCHANGED <<books, sources>>
       ELSE \* no UPDATE to send; the INSERT of the Source breaks the foreign
            \* key (PRAGMA foreign_keys=ON): IntegrityError, rollback
            /\ pc' = [pc EXCEPT ![r] = "reread"]
            /\ inTxn' = [inTxn EXCEPT ![r] = FALSE]
            /\ UNCHANGED <<books, sources, result, detail, prov, book>>
    /\ UNCHANGED <<query, isbn_input, calls, ncalls, prev, overlap>>
    /\ UNCHANGED clsVars
    /\ UNCHANGED nlpVars
    /\ UNCHANGED loopVars

\* mutant: the Source of the failed attempt outlives the rollback
Reread_KeepsSource(r) ==
    /\ pc[r] = "reread"
    /\ LET found == IF Truthy(detail[r].isbn) THEN FindByIsbn(books, detail[r].isbn) ELSE {}
       IN  IF found # {}
           THEN /\ \E b \in found : Return(r, ReturnedId(b.id, "reread"))
                /\ UNCHANGED <<calls, sources>>
           ELSE /\ Continue(r, Truthy(detail[r].isbn))
                /\ calls' = [calls EXCEPT ![r][Len(calls[r])].outcome = "unpersisted"]
                /\ sources' = Append(sources, Source(0, PROVIDERS[prov[r]]))
    /\ UNCHANGED <<books, query, isbn_input, ncalls, prev, overlap>>
    /\ UNCHANGED clsVars
    /\ UNCHANGED nlpVars
    /\ UNCHANGED loopVars

\* except IntegrityError: session.rollback(); the re-read by detail.isbn,
\* which begins a transaction on the session; "return existing.id", or on
\* with the loop (the visit is then logged as "unpersisted")
Reread(r) ==
    /\ pc[r] = "reread"
    /\ LET found == IF Truthy(detail[r].isbn) THEN FindByIsbn(books, detail[r].isbn) ELSE {}
       IN  IF found # {}
           THEN /\ \E b \in found : Return(r, ReturnedId(b.id, "reread"))
                /\ UNCHANGED calls
           ELSE /\ Continue(r, Truthy(detail[r].isbn))
                /\ calls' = [calls EXCEPT ![r][Len(calls[r])].outcome = "unpersisted"]
    /\ UNCHANGED <<books, sources, query, isbn_input, ncalls, prev, overlap>>
    /\ UNCHANGED clsVars
    /\ UNCHANGED nlpVars
    /\ UNCHANGED loopVars

Next ==
    \/ \E r \in Procs : \E q \in Queries : Start(r, q)
    \/ \E r \in Procs : TryProvider(r)
    \/ \E r \in Procs : Insert(r)
    \/ \E r \in Procs : Update(r)
    \/ \E r \in Procs : Reread(r)

Spec == Init /\ [][Next]_vars

\* the row a resolution of the ISBN query committed for the detail d when
\* the download of the cover failed
StoredWithoutCover(id, d) ==
    SetClc(SetCover(Merge(NewBookByIsbn(id, IsbnKey(d), d), d), fetch_cover(d.cover_url, FALSE)),
           LlmEnv(TRUE, FALSE, FALSE, None))

\* the application started on a database that holds one book, stored by an
\* earlier run without a cover
InitFound ==
    /\ books = {StoredWithoutCover(1, Full1(IsbnX))}
    /\ sources = <<Source(1, PROVIDERS[1])>>
    /\ pc = [r \in Procs |-> "idle"]
    /\ query = [r \in Procs |-> <<>>]
    /\ isbn_input = [r \in Procs |-> None]
    /\ prov = [r \in Procs |-> 1]
    /\ detail = [r \in Procs |-> NoDetail]
    /\ book = [r \in Procs |-> NoBook]
    /\ inTxn = [r \in Procs |-> FALSE]
    /\ result = [r \in Procs |-> Pending]
    /\ calls = [r \in Procs |-> <<>>]
    /\ ncalls = 0
    /\ prev = [r \in Procs |-> [query |-> <<>>, res |-> Pending]]
    /\ overlap = [r \in Procs |-> FALSE]
    /\ c_in = NoArgs
    /\ c_llm = LlmEnv(FALSE, FALSE, FALSE, None)
    /\ c_out = NoResult
    /\ c_used = <<>>
    /\ NlpInit
    /\ LoopInit

SpecFound == InitFound /\ [][Next]_vars

\* mutant: the book row is deleted and its Source rows are left behind
Delete_NoCascade(id) ==
    /\ \E b \in books : b.id = id
    /\ books' = {b \in books : b.id # id}
    /\ UNCHANGED <<sources, pc, query, isbn_input, prov, detail, book, inTxn, result,
                   calls, ncalls, prev, overlap>>
    /\ UNCHANGED clsVars
    /\ UNCHANGED nlpVars
    /\ UNCHANGED loopVars

\* on_delete of the desktop window and the delete form of the web page:
\* S.get(Book, id); S.delete(b); S.commit().  The Source rows of the book
\* go with it (cascade="all, delete-orphan", ondelete="CASCADE").
Delete(id) ==
    /\ \E b \in books : b.id = id
    /\ books' = {b \in books : b.id # id}
    /\ sources' = SelectSeq(sources, LAMBDA s : s.book_id # id)
    /\ UNCHANGED <<pc, query, isbn_input, prov, detail, book, inTxn, result,
                   calls, ncalls, prev, overlap>>
    /\ UNCHANGED clsVars
    /\ UNCHANGED nlpVars
    /\ UNCHANGED loopVars

\* the resolutions of the worker threads and the deletions of the user
NextDelete ==
    \/ Next
    \/ \E id \in 1..MaxCalls : Delete(id)

SpecDelete == Init /\ [][NextDelete]_vars

-----------------------------------------------------------------------------
(* classify_clc as a function of its arguments and of the external model. *)

ClassifyTitles ==
    {<<>>, <<"X">>,
     <<"u6df1", "u5ea6", "u5b66", "u4e60", "u4e0e", "u4eba", "u5de5", "u667a", "u80fd",
       "u5bfc", "u8bba">>,
     <<"u300a", "u5386", "u53f2", "u300b", " ", "u7814", "u7a76">>,
     <<"u8ba1", "u7b97", "u673a", "u7b97", "u6cd5", "u7f51", "u7edc", "u7535", "u5b50">>}
ClassifyAuthors == {<<>>, << <<"u6587", "u5b66">> >>}
ClassifySummaries == {None, <<>>, <<"u6587", "u5b66">>}
ClassifyCips ==
    {None, <<>>, <<"T", "P", "3", "9", "1", ".", "1">>, <<"H", "3", "1", "5", ".", "4">>,
     <<"t", "p", "3">>, <<" ", "i", "2">>, <<"1", "2", "-", "3">>, <<"K", ".", "5", "x">>,
     <<"1", "2", " ", "T", "P">>, <<"M", "1">>}
ClassifyLlmEnvs ==
    {LlmEnv(FALSE, TRUE, FALSE, <<"T">>), LlmEnv(TRUE, FALSE, FALSE, <<"T">>),
     LlmEnv(TRUE, TRUE, TRUE, None), LlmEnv(TRUE, TRUE, FALSE, None),
     LlmEnv(TRUE, TRUE, FALSE, <<>>), LlmEnv(TRUE, TRUE, FALSE, <<"1", "2">>),
     LlmEnv(TRUE, TRUE, FALSE, <<"T">>), LlmEnv(TRUE, TRUE, FALSE, <<" ", "t", "p", "3", "\n">>),
     LlmEnv(TRUE, TRUE, FALSE, <<"I">>), LlmEnv(TRUE, TRUE, FALSE, <<"W">>)}

InitClassify ==
    /\ books = {}
    /\ sources = <<>>
    /\ pc = [r \in Procs |-> "idle"]
    /\ query = [r \in Procs |-> <<>>]
    /\ isbn_input = [r \in Procs |-> None]
    /\ prov = [r \in Procs |-> 1]
    /\ detail = [r \in Procs |-> NoDetail]
    /\ book = [r \in Procs |-> NoBook]
    /\ inTxn = [r \in Procs |-> FALSE]
    /\ result = [r \in Procs |-> Pending]
    /\ calls = [r \in Procs |-> <<>>]
    /\ ncalls = 0
    /\ prev = [r \in Procs |-> [query |-> <<>>, res |-> Pending]]
    /\ overlap = [r \in Procs |-> FALSE]
    /\ c_in \in {ClassifyArgs(t, a, s, c) : t \in ClassifyTitles, a \in ClassifyAuthors,
                                             s \in ClassifySummaries, c \in ClassifyCips}
    /\ c_llm \in ClassifyLlmEnvs
    /\ c_out = NoResult
    /\ c_used = <<>>
    /\ NlpInit
    /\ LoopInit

\* one call classify_clc(title, authors, summary, cip)
Classify ==
    /\ c_used = <<>>
    /\ \E got \in {classify_clc(c_in.title, c_in.authors, c_in.summary, c_in.cip, c_llm)} :
           /\ c_out' = got.res
           /\ c_used' = got.stages
    /\ UNCHANGED <<c_in, c_llm>>
    /\ UNCHANGED pipeVars
    /\ UNCHANGED nlpVars
    /\ UNCHANGED loopVars

NextClassify == Classify

SpecClassify == InitClassify /\ [][NextClassify]_vars

-----------------------------------------------------------------------------
(* split_title_author called from several threads (the Qt workers of        *)
(* desktop/main_qt.py each run search_and_ingest, which calls it), with the *)
(* lazy load of the extraction backend in the module's globals.             *)

SplitInputs ==
    {<<>>, <<" ", "u3000">>, <<"(", "a", ")">>,
     <<"u660e", "u671d", "u90a3", "u4e9b", "u4e8b", "u513f", " ",
       "u5f53", "u5e74", "u660e", "u6708", " ", "u8457">>,
     <<"u4e66", " ", "u5f20", "u4e09", "u4e3b", "u7f16">>}

\* what the loaded model may answer for a text
NerAnswers ==
    {NerAnswer(TRUE, <<>>, <<>>),
     NoAnswer,
     NerAnswer(FALSE, << <<"u5f53", "u5e74", "u660e", "u6708">> >>, <<>>),
     NerAnswer(FALSE, << <<"u660e", "u6708">>, <<"u660e", "u6708", "u8457">> >>,
               << <<"u660e", "u671d", "u90a3", "u4e9b", "u4e8b", "u513f">> >>),
     NerAnswer(FALSE, << <<"u8457">> >>, <<>>),
     NerAnswer(FALSE, << <<"u5f20", "u4e09", "u4e3b", "u7f16">>,
                         <<"u5f20", "u4e09", "u7f16", "u8457">> >>, <<>>)}

Backends == <<"hanlp", "ltp", "spacy">>

InitSplit ==
    /\ books = {}
    /\ sources = <<>>
    /\ pc = [r \in Procs |-> "idle"]
    /\ query = [r \in Procs |-> <<>>]
    /\ isbn_input = [r \in Procs |-> None]
    /\ prov = [r \in Procs |-> 1]
    /\ detail = [r \in Procs |-> NoDetail]
    /\ book = [r \in Procs |-> NoBook]
    /\ inTxn = [r \in Procs |-> FALSE]
    /\ result = [r \in Procs |-> Pending]
    /\ calls = [r \in Procs |-> <<>>]
    /\ ncalls = 0
    /\ prev = [r \in Procs |-> [query |-> <<>>, res |-> Pending]]
    /\ overlap = [r \in Procs |-> FALSE]
    /\ c_in = NoArgs
    /\ c_llm = LlmEnv(FALSE, FALSE, FALSE, None)
    /\ c_out = NoResult
    /\ c_used = <<>>
    /\ NlpInit
    /\ LoopInit

\* split_title_author(s) up to the call of _try_load_ner: lines 233-238 and
\* 207-209; an input that is empty once normalised returns at line 235, a
\* text that is empty once cleaned skips the extraction
SplitStart(r, s) ==
    /\ s_pc[r] \in {"idle", "done"}
    /\ s_calls < MaxCalls
    /\ s_calls' = s_calls + 1
    /\ s_in' = [s_in EXCEPT ![r] = s]
    /\ s_ans' = [s_ans EXCEPT ![r] = NoAnswer]
    /\ s_ner' = [s_ner EXCEPT ![r] = NoNerResult]
    /\ \E n \in {normalize_whitespace(s)} :
         IF n = <<>>
         THEN /\ s_text' = [s_text EXCEPT ![r] = <<>>]
              /\ s_out' = [s_out EXCEPT ![r] = Returned(Pair(<<>>, <<>>))]
              /\ s_pc' = [s_pc EXCEPT ![r] = "done"]
         ELSE \E cleaned \in {clean_line(n)} :
              /\ s_text' = [s_text EXCEPT ![r] = cleaned]
              /\ IF clean_line(cleaned) = <<>>
                 THEN /\ s_out' = [s_out EXCEPT ![r] = Returned(Arbitrate(cleaned, NoNerResult))]
                      /\ s_pc' = [s_pc EXCEPT ![r] = "done"]
                 ELSE /\ s_out' = [s_out EXCEPT ![r] = NoSplit]
                      /\ s_pc' = [s_pc EXCEPT ![r] = "check"]
    /\ UNCHANGED <<_TRIED_LOAD, _NER_BACKEND, _NER_MODEL, n_loads>>
    /\ UNCHANGED pipeVars
    /\ UNCHANGED clsVars
    /\ UNCHANGED loopVars

\* _try_load_ner, lines 26-27: the read of _TRIED_LOAD
CheckTried(r) ==
    /\ s_pc[r] = "check"
    /\ s_pc' = [s_pc EXCEPT ![r] = IF _TRIED_LOAD THEN "extract" ELSE "set"]
    /\ UNCHANGED <<_TRIED_LOAD, _NER_BACKEND, _NER_MODEL, n_loads,
                   s_in, s_text, s_ans, s_ner, s_out, s_calls>>
    /\ UNCHANGED pipeVars
    /\ UNCHANGED clsVars
    /\ UNCHANGED loopVars

\* _try_load_ner, line 28: the store to _TRIED_LOAD; the thread goes on to
\* load the backends in order
SetTried(r) ==
    /\ s_pc[r] = "set"
    /\ _TRIED_LOAD' = TRUE
    /\ n_loads' = n_loads + 1
    /\ s_pc' = [s_pc EXCEPT ![r] = "load_1"]
    /\ UNCHANGED <<_NER_BACKEND, _NER_MODEL, s_in, s_text, s_ans, s_ner, s_out, s_calls>>
    /\ UNCHANGED pipeVars
    /\ UNCHANGED clsVars
    /\ UNCHANGED loopVars

LoadPc(i) == IF i = 1 THEN "load_1" ELSE IF i = 2 THEN "load_2" ELSE "load_3"
StorePc(i) == IF i = 1 THEN "store_1" ELSE IF i = 2 THEN "store_2" ELSE "store_3"

\* _try_load_ner, one try block (lines 31-40, 43-50, 53-68): the import and
\* the load succeed and _NER_MODEL is stored, or the except branch resets
\* _NER_BACKEND and _NER_MODEL and the next backend is tried
LoadBackend(r, i, ok) ==
    /\ s_pc[r] = LoadPc(i)
    /\ IF ok
       THEN /\ _NER_MODEL' = Backends[i]
            /\ UNCHANGED _NER_BACKEND
            /\ s_pc' = [s_pc EXCEPT ![r] = StorePc(i)]
       ELSE /\ _NER_BACKEND' = ""
            /\ _NER_MODEL' = ""
            /\ s_pc' = [s_pc EXCEPT ![r] = IF i < 3 THEN LoadPc(i + 1) ELSE "extract"]
    /\ UNCHANGED <<_TRIED_LOAD, n_loads, s_in, s_text, s_ans, s_ner, s_out, s_calls>>
    /\ UNCHANGED pipeVars
    /\ UNCHANGED clsVars
    /\ UNCHANGED loopVars

\* _try_load_ner, lines 36, 46, 58/64: the store to _NER_BACKEND, and return
StoreBackend(r, i) ==
    /\ s_pc[r] = StorePc(i)
    /\ _NER_BACKEND' = Backends[i]
    /\ s_pc' = [s_pc EXCEPT ![r] = "extract"]
    /\ UNCHANGED <<_TRIED_LOAD, _NER_MODEL, n_loads, s_in, s_text, s_ans, s_ner, s_out, s_calls>>
    /\ UNCHANGED pipeVars
    /\ UNCHANGED clsVars
    /\ UNCHANGED loopVars

\* _extract_title_author_via_ner lines 212-222 and split_title_author lines
\* 242-277. A model that is not the backend's (two loads interleaved) makes
\* the extraction raise inside its try block.
Extract(r) ==
    /\ s_pc[r] = "extract"
    /\ \E ans \in IF _NER_BACKEND = "" \/ _NER_MODEL = "" THEN {NoAnswer} ELSE NerAnswers :
       \E ner \in {IF _NER_BACKEND = "" \/ _NER_MODEL = "" THEN NoNerResult
                   ELSE ExtractWith(_NER_BACKEND, clean_line(s_text[r]),
                                    IF _NER_MODEL = _NER_BACKEND THEN ans
                                    ELSE NerAnswer(TRUE, <<>>, <<>>))} :
         /\ s_ans' = [s_ans EXCEPT ![r] = ans]
         /\ s_ner' = [s_ner EXCEPT ![r] = IF ner.raised THEN NoNerResult ELSE ner]
         /\ s_out' = [s_out EXCEPT ![r] = IF ner.raised THEN SplitRaised
                                          ELSE Returned(Arbitrate(s_text[r], ner))]
    /\ s_pc' = [s_pc EXCEPT ![r] = "done"]
    /\ UNCHANGED <<_TRIED_LOAD, _NER_BACKEND, _NER_MODEL, n_loads, s_in, s_text, s_calls>>
    /\ UNCHANGED pipeVars
    /\ UNCHANGED clsVars
    /\ UNCHANGED loopVars

NextSplit ==
    \E r \in Procs :
        \/ \E s \in SplitInputs : SplitStart(r, s)
        \/ CheckTried(r)
        \/ SetTried(r)
        \/ \E i \in 1..3, ok \in BOOLEAN : LoadBackend(r, i, ok)
        \/ \E i \in 1..3 : StoreBackend(r, i)
        \/ Extract(r)

SpecSplit == InitSplit /\ [][NextSplit]_vars

-----------------------------------------------------------------------------
(* One call of search_and_ingest followed through "for p in providers"     *)
(* (lines 130-177): every call of a provider's method is a step and is     *)
(* logged, l_log holding the calls made to the provider at hand.  Both configured providers define get_by_isbn, search and       *)
(* get_detail, so each hasattr test holds.  The transaction of lines       *)
(* 179-215 is taken by what it comes to: an id is returned, an exception   *)
(* leaves the call, or the loop goes on.                                    *)

\* split_title_author(s) with the backend loaded ("" for none) and the
\* answer of its model
split_title_author(s, backend, ans) ==
    The({IF n = <<>> THEN Pair(<<>>, <<>>)
         ELSE The({Arbitrate(cleaned, ExtractWith(backend, clean_line(cleaned), ans)) :
                   cleaned \in {clean_line(n)}}) :
         n \in {normalize_whitespace(s)}})

\* author1 = (authors[0] if authors else "").strip()
Author1(authors) == IF authors # <<>> THEN Strip(authors[1]) ELSE <<>>

\* mutant: the raw query is searched before the title
SearchCandidates_QueryFirst(title, author1, q) ==
    <<q>>
    \o (IF Truthy(title) THEN <<title>> ELSE <<>>)
    \o (IF Truthy(title) /\ Truthy(author1) THEN <<title \o <<" ">> \o author1>> ELSE <<>>)

\* mutant: the raw query is appended twice
SearchCandidates_QueryTwice(title, author1, q) ==
    (IF Truthy(title) THEN <<title>> ELSE <<>>)
    \o (IF Truthy(title) /\ Truthy(author1) THEN <<title \o <<" ">> \o author1>> ELSE <<>>)
    \o <<q, q>>

\* search_candidates of lines 134-140
SearchCandidates(title, author1, q) ==
    (IF Truthy(title) THEN <<title>> ELSE <<>>)
    \o (IF Truthy(title) /\ Truthy(author1) THEN <<title \o <<" ">> \o author1>> ELSE <<>>)
    \o <<q>>

LoopQueries ==
    {<<>>, QueryTitle, Isbnx, <<"A", " ", "b", " ">> \o IsbnX}

LoopDetails == {Full1(IsbnX), Full1(Isbn13), Full1(None)}

\* what get_by_isbn and get_detail may do
DetailResponses ==
    {Raises("get_by_isbn"), Nothing} \cup {Gives(d) : d \in LoopDetails}

\* res[0] of a search that found something
Hits ==
    {SearchResult(<<"u">>, None), SearchResult(<<"u">>, IsbnX),
     SearchResult(None, IsbnX), SearchResult(None, None)}

\* what the transaction of an accepted detail comes to
StoreOutcomes == {"id", "raised", "continue"}

InitLoop ==
    /\ books = {}
    /\ sources = <<>>
    /\ pc = [r \in Procs |-> "idle"]
    /\ query = [r \in Procs |-> <<>>]
    /\ isbn_input = [r \in Procs |-> None]
    /\ prov = [r \in Procs |-> 1]
    /\ detail = [r \in Procs |-> NoDetail]
    /\ book = [r \in Procs |-> NoBook]
    /\ inTxn = [r \in Procs |-> FALSE]
    /\ result = [r \in Procs |-> Pending]
    /\ calls = [r \in Procs |-> <<>>]
    /\ ncalls = 0
    /\ prev = [r \in Procs |-> [query |-> <<>>, res |-> Pending]]
    /\ overlap = [r \in Procs |-> FALSE]
    /\ c_in = NoArgs
    /\ c_llm = LlmEnv(FALSE, FALSE, FALSE, None)
    /\ c_out = NoResult
    /\ c_used = <<>>
    /\ NlpInit
    /\ LoopInit

\* the first call of a provider's try block: "if isbn_input and hasattr"
EnterProvider(isbn) == IF Truthy(isbn) THEN "lookup" ELSE "search"

\* lines 130-140: the split, the ISBN of the query, the search strings
LoopStart(q, backend, ans) ==
    /\ l_pc = "idle"
    /\ \E pair \in {split_title_author(q, backend, ans)} :
       \E isbn \in {find_isbn(q)} :
          /\ l_split' = pair
          /\ l_isbn' = isbn
          /\ search_candidates' = SearchCandidates(pair.title, Author1(pair.authors), q)
          /\ l_pc' = EnterProvider(isbn)
    /\ l_query' = q
    /\ l_p' = 1
    /\ l_q' = 1
    /\ l_res' = NoHit
    /\ l_detail' = Nothing
    /\ l_log' = <<>>
    /\ l_visited' = <<1>>
    /\ l_result' = "pending"
    /\ UNCHANGED pipeVars
    /\ UNCHANGED clsVars
    /\ UNCHANGED nlpVars

\* line 148: detail = p.get_by_isbn(isbn_input); an exception leaves the
\* try block (lines 161-163)
DirectLookup(resp) ==
    /\ l_pc = "lookup"
    /\ l_log' = Append(l_log, Call(l_p, 148, "get_by_isbn", l_isbn, resp.kind))
    /\ IF resp.kind = "raise"
       THEN /\ l_pc' = "after"
            /\ UNCHANGED l_detail
       ELSE IF resp.kind = "detail"
       THEN /\ l_pc' = "after"
            /\ l_detail' = resp
       ELSE /\ l_pc' = "search"
            /\ l_detail' = Nothing
    /\ UNCHANGED <<l_query, l_isbn, l_split, search_candidates, l_p, l_q, l_res, l_visited, l_result>>
    /\ UNCHANGED pipeVars
    /\ UNCHANGED clsVars
    /\ UNCHANGED nlpVars

\* mutant: "if detail: break" is missing
LeavesLoop_NoBreak(got, i, n) == i >= n

\* the end of the body of "for q in search_candidates": "if detail: break",
\* or the list is at its end
LeavesLoop(got, i, n) == got \/ i >= n

Advance(got) ==
    IF LeavesLoop(got, l_q, Len(search_candidates))
    THEN /\ l_pc' = "after"
         /\ UNCHANGED l_q
    ELSE /\ l_pc' = "search"
         /\ l_q' = l_q + 1

\* line 153: res = p.search(q); gave is "raise", "none" for an empty list,
\* "results" for a list whose first element is hit
Search(gave, hit) ==
    /\ l_pc = "search"
    /\ l_log' = Append(l_log, Call(l_p, 153, "search", search_candidates[l_q], gave))
    /\ IF gave = "raise"
       THEN /\ l_pc' = "after"
            /\ UNCHANGED <<l_q, l_res>>
       ELSE IF gave = "results" /\ Truthy(hit.url)
       THEN /\ l_pc' = "get_detail"
            /\ l_res' = hit
            /\ UNCHANGED l_q
       ELSE IF gave = "results" /\ Truthy(hit.isbn)
       THEN /\ l_pc' = "get_by_isbn"
            /\ l_res' = hit
            /\ UNCHANGED l_q
       ELSE /\ Advance(l_detail.kind = "detail")
            /\ UNCHANGED l_res
    /\ UNCHANGED <<l_query, l_isbn, l_split, search_candidates, l_p, l_detail, l_visited, l_result>>
    /\ UNCHANGED pipeVars
    /\ UNCHANGED clsVars
    /\ UNCHANGED nlpVars

\* lines 156 and 158: detail = p.get_detail(res[0].url), or
\* detail = p.get_by_isbn(res[0].isbn)
Follow(resp) ==
    /\ l_pc \in {"get_detail", "get_by_isbn"}
    /\ l_log' = Append(l_log,
          Call(l_p, IF l_pc = "get_detail" THEN 156 ELSE 158, l_pc,
               IF l_pc = "get_detail" THEN l_res.url ELSE l_res.isbn, resp.kind))
    /\ IF resp.kind = "raise"
       THEN /\ l_pc' = "after"
            /\ UNCHANGED <<l_q, l_detail>>
       ELSE /\ l_detail' = IF resp.kind = "detail" THEN resp ELSE Nothing
            /\ Advance(resp.kind = "detail")
    /\ UNCHANGED <<l_query, l_isbn, l_split, search_candidates, l_p, l_res, l_visited, l_result>>
    /\ UNCHANGED pipeVars
    /\ UNCHANGED clsVars
    /\ UNCHANGED nlpVars

\* lines 165-217, after the try block: "continue" without a detail or with
\* a detail of another ISBN; else the transaction, which returns the id,
\* lets an exception out, or (a rolled-back write without a row to return)
\* goes on with the loop; "return None" after the last provider
Leave(outcome) ==
    /\ l_pc = "after"
    /\ IF \/ l_detail.kind # "detail"
          \/ IsbnMismatch(l_isbn, l_detail.detail)
          \/ outcome = "continue"
       THEN IF l_p < Len(PROVIDERS)
            THEN /\ l_p' = l_p + 1
                 /\ l_q' = 1
                 /\ l_res' = NoHit
                 /\ l_detail' = Nothing
                 /\ l_log' = <<>>
                 /\ l_visited' = Append(l_visited, l_p + 1)
                 /\ l_pc' = EnterProvider(l_isbn)
                 /\ UNCHANGED l_result
            ELSE /\ l_pc' = "done"
                 /\ l_result' = "none"
                 /\ UNCHANGED <<l_p, l_q, l_res, l_detail, l_log, l_visited>>
       ELSE /\ l_pc' = "done"
            /\ l_result' = outcome
            /\ UNCHANGED <<l_p, l_q, l_res, l_detail, l_log, l_visited>>
    /\ UNCHANGED <<l_query, l_isbn, l_split, search_candidates>>
    /\ UNCHANGED pipeVars
    /\ UNCHANGED clsVars
    /\ UNCHANGED nlpVars

\* the steps of a call under way
LoopStep ==
    \/ \E resp \in DetailResponses : DirectLookup(resp)
    \/ \E gave \in {"raise", "none", "results"} : \E hit \in Hits : Search(gave, hit)
    \/ \E resp \in DetailResponses : Follow(resp)
    \/ \E outcome \in StoreOutcomes : Leave(outcome)

NextLoop ==
    \/ \E q \in LoopQueries : \E backend \in {"", "spacy"} : \E ans \in NerAnswers :
          LoopStart(q, backend, ans)
    \/ LoopStep

SpecLoop == InitLoop /\ [][NextLoop]_vars

\* every provider call returns or raises, and the thread is scheduled
FairSpecLoop == SpecLoop /\ WF_vars(LoopStep)

-----------------------------------------------------------------------------
(* The claims. *)

\* the normalization of the ISBN guard: hyphens stripped, case folded
NormIsbn(s) == Upper(RemoveChar(s, "-"))

RowsOfIsbn(n) == {b \in books : b.isbn # None /\ NormIsbn(b.isbn) = n}
BookIds == {b.id : b \in books}
Last(s) == s[Len(s)]

\* C1: no two Book rows have ISBNs that are equal after normalization
\* (hyphens stripped, case folded), whatever spellings the providers return.
C1_UniqueNormalizedIsbn ==
    \A b1 \in books : \A b2 \in books :
        (b1.isbn # None /\ b2.isbn # None /\ NormIsbn(b1.isbn) = NormIsbn(b2.isbn))
            => b1 = b2

\* C2: a thread that resolves the same ISBN query twice in a row, the
\* providers giving an accepted detail both times, gets the same book id
\* both times, and exactly one row has that ISBN.
C2_SameQueryTwiceOneRow ==
    \A r \in Procs :
        (/\ pc[r] = "done"
         /\ result[r].kind = "id"
         /\ prev[r].res.kind = "id"
         /\ prev[r].query = query[r]
         /\ Truthy(isbn_input[r]))
            => /\ result[r].id = prev[r].res.id
               /\ Cardinality(RowsOfIsbn(NormIsbn(isbn_input[r]))) = 1

\* C3: an accepted detail without ISBN (none from the query either) always
\* creates a new Book row with a fresh id and changes no existing row: it
\* never takes the path of a found book, and its write adds exactly one row.
C3_NoIsbnStep(r) ==
    (pc[r] = "insert" /\ IsbnKey(detail[r]) = None /\ pc'[r] # "insert")
        => \E b \in books' :
              /\ b.id \notin BookIds
              /\ b.isbn = None
              /\ books' = books \cup {b}
              /\ result'[r] = ReturnedId(b.id, "commit")

C3_NoIsbnAlwaysCreates ==
    /\ [](\A r \in Procs : pc[r] \in {"commit", "reread"} => IsbnKey(detail[r]) # None)
    /\ [][\A r \in Procs : C3_NoIsbnStep(r)]_vars

\* two rows without ISBN, of the same title and authors, next to each other
C3_Witness ==
    \E b1 \in books : \E b2 \in books :
        /\ b1.id # b2.id
        /\ b1.isbn = None /\ b2.isbn = None
        /\ b1.title_std = b2.title_std /\ b1.authors_std = b2.authors_std

\* the mirrored columns of a Book
MirroredColumns ==
    {"title_std", "authors_std", "publisher", "pub_year", "edition", "pages",
     "summary", "author_bio", "language", "cip"}

\* a text column: the detail's value when it is non-empty, else the old one
KeepOrTake(old, v) == IF Truthy(v) THEN v ELSE old
KeepOrTakeInt(old, n) == IF TruthyInt(n) THEN n ELSE old
\* the same for a value compared and stored without the white space around it
KeepOrTakeStripped(old, v) ==
    IF Truthy(v) /\ Strip(v) # <<>> THEN Strip(v) ELSE old

C4_Merged(r) ==
    LET d == detail[r]
        o == book[r].orig
        c == book[r].cur
    IN  /\ c.title_std = KeepOrTakeStripped(o.title_std, d.title)
        /\ c.authors_std = IF Truthy(d.authors) THEN Join(<<",">>, d.authors)
                           ELSE o.authors_std
        /\ c.publisher = KeepOrTake(o.publisher, d.publisher)
        /\ c.pub_year = KeepOrTakeInt(o.pub_year, d.pub_year)
        /\ c.edition = KeepOrTake(o.edition, d.edition)
        /\ c.pages = KeepOrTakeInt(o.pages, d.pages)
        /\ c.summary = KeepOrTakeStripped(o.summary, d.summary)
        /\ c.author_bio = KeepOrTakeStripped(o.author_bio, d.author_bio)
        /\ c.language = KeepOrTake(o.language, d.language)
        /\ c.cip = KeepOrTake(o.cip, d.cip)
        /\ c.id = o.id /\ c.isbn = o.isbn

C4_UpdateStep(r) ==
    (pc[r] = "commit" /\ pc'[r] = "done" /\ book[r].orig \in books)
        => /\ \E b \in books' :
                /\ b.id = book[r].orig.id
                /\ \A f \in MirroredColumns : b[f] = book[r].cur[f]
                /\ books' = (books \ {book[r].orig}) \cup {b}
           /\ result'[r] = ReturnedId(book[r].orig.id, "commit")

C5_MismatchStep(r) ==
    (calls'[r] = Append(calls[r], Visit(prov[r], "mismatch")))
        => /\ books' = books
           /\ sources' = sources
           /\ IF prov[r] < Len(PROVIDERS)
              THEN /\ pc'[r] = "try"
                   /\ prov'[r] = prov[r] + 1
                   /\ result'[r] = Pending
              ELSE /\ pc'[r] = "done"
                   /\ result'[r] = ReturnedNone

C5_MismatchRejected ==
    /\ [](\A r \in Procs :
            (pc[r] \in {"insert", "commit", "reread"} /\ Truthy(isbn_input[r]))
                => /\ Truthy(detail[r].isbn)
                   /\ NormIsbn(detail[r].isbn) = NormIsbn(isbn_input[r]))
    /\ [][\A r \in Procs : C5_MismatchStep(r)]_vars

\* the first provider's detail is rejected for its ISBN, the second one's
\* is accepted and the call returns its book
C5_Witness ==
    \E r \in Procs :
        /\ calls[r] = <<Visit(1, "mismatch"), Visit(2, "accepted")>>
        /\ result[r].kind = "id"
        /\ \E b \in books : b.id = result[r].id /\ NormIsbn(b.isbn) = NormIsbn(isbn_input[r])

\* the outcomes of a thread's visits so far
Outcomes(r) == {calls[r][k].outcome : k \in 1..Len(calls[r])}

C6_ExceptionStep(r) ==
    (calls'[r] = Append(calls[r], Visit(prov[r], "exception")))
        => /\ books' = books
           /\ sources' = sources
           /\ inTxn'[r] = FALSE
           /\ IF prov[r] < Len(PROVIDERS)
              THEN /\ pc'[r] = "try"
                   /\ prov'[r] = prov[r] + 1
                   /\ result'[r] = Pending
              ELSE /\ pc'[r] = "done"
                   /\ result'[r] = ReturnedNone

Rejections == {"no_detail", "mismatch", "exception"}

C7_Order(left) ==
    \A r \in Procs :
        /\ Len(calls[r]) <= Len(PROVIDERS)
        /\ \A k \in 1..Len(calls[r]) :
              /\ calls[r][k].p = k
              /\ k < Len(calls[r]) => calls[r][k].outcome \in left
        /\ (pc[r] = "try" /\ calls[r] # <<>>) => Last(calls[r]).outcome \in left
        /\ result[r].kind = "id" =>
              /\ calls[r] # <<>>
              /\ Last(calls[r]).outcome = "accepted"
              /\ pc[r] = "done"

C8_ConcurrentSameIsbn ==
    \A r1 \in Procs : \A r2 \in Procs :
        (/\ r1 # r2
         /\ pc[r1] = "done" /\ pc[r2] = "done"
         /\ overlap[r1] /\ overlap[r2]
         /\ Truthy(isbn_input[r1]) /\ Truthy(isbn_input[r2])
         /\ NormIsbn(isbn_input[r1]) = NormIsbn(isbn_input[r2])
         /\ Outcomes(r1) \cap {"accepted", "unpersisted"} # {}
         /\ Outcomes(r2) \cap {"accepted", "unpersisted"} # {})
            => /\ result[r1].kind = "id"
               /\ result[r2].kind = "id"
               /\ result[r1].id = result[r2].id
               /\ Cardinality(RowsOfIsbn(NormIsbn(isbn_input[r1]))) = 1

\* C9: no exception leaves search_and_ingest: a call ends with a book id
\* or with none.
C9_NoExceptionEscapes ==
    \A r \in Procs : pc[r] = "done" => result[r].kind \in {"id", "none"}

\* the catalog number is present and the pattern matches in it
CipMatches(cip) ==
    /\ Truthy(cip)
    /\ \E i \in 1..Len(cip) : ClcMatchAt(Upper(cip), i)

\* C10: for a catalog number that is present and matches the pattern,
\* classify_clc returns the match with source "cip" and confidence 0.95,
\* without consulting the external model or the keyword scores, and the
\* result is the same for every title, author list, summary and state of
\* the external model.
C10_CipFirst ==
    (c_used # <<>> /\ CipMatches(c_in.cip))
        => /\ c_used = <<"_from_cip">>
           /\ c_out.source = "cip"
           /\ c_out.conf = 95
           /\ c_out.code = _CLC_RE_search(Upper(c_in.cip))
           /\ c_out.label = _label(<<c_out.code[1]>>)
           /\ \A t \in ClassifyTitles : \A a \in ClassifyAuthors :
              \A s \in ClassifySummaries : \A env \in ClassifyLlmEnvs :
                 classify_clc(t, a, s, c_in.cip, env).res = c_out

\* a catalog number classified while the external model is enabled,
\* configured and answering another category, and the title has keywords
C10_Witness ==
    /\ c_used = <<"_from_cip">>
    /\ CipMatches(c_in.cip)
    /\ c_out.source = "cip"
    /\ c_llm = LlmEnv(TRUE, TRUE, FALSE, <<"I">>)
    /\ c_out.code[1] # "I"
    /\ classify_llm(c_in.title, c_in.authors, c_in.summary, c_llm) # NoResult
    /\ classify_rule_based(c_in.title, c_in.authors, c_in.summary).conf > 55

\* classify_clc has been called
Classified == c_used # <<>>

\* the external model is unavailable or fails
LlmUnavailable(env) == ~env.enabled \/ ~env.key \/ env.raises

\* the text classify_rule_based scores
RuleBlob(title, authors, summary) ==
    Strip(_normalize(title) \o <<" ">> \o _normalize(Join(<<",">>, authors))
            \o <<" ">> \o _normalize(OrEmpty(summary)))

\* C11: for the catalog number "TP391.1" (and any letter-led code with a
\* decimal suffix, as "H315.4") the returned code is the whole catalog
\* number.
C11_WholeCatalogNumber ==
    (/\ Classified
     /\ c_in.title = <<"X">> /\ c_in.authors = <<>> /\ c_in.summary = <<>>
     /\ c_in.cip \in {<<"T", "P", "3", "9", "1", ".", "1">>, <<"H", "3", "1", "5", ".", "4">>})
        => c_out.code = c_in.cip

\* C12: with an empty title, no authors, an empty summary, no catalog
\* number and the external model unavailable, classify_clc returns "Z" with
\* confidence 0.5.
C12_AllEmptyDefault ==
    (/\ Classified
     /\ c_in.title = <<>> /\ c_in.authors = <<>> /\ ~Truthy(c_in.summary)
     /\ ~Truthy(c_in.cip)
     /\ LlmUnavailable(c_llm))
        => /\ c_out.code = <<"Z">>
           /\ c_out.conf = 50

\* C13: when the keyword scoring runs on a non-empty text in which no
\* keyword of any category occurs, the result is "Z" with confidence 0.5.
C13_NoKeywordDefault ==
    (/\ Classified
     /\ c_out.source = "rule"
     /\ RuleBlob(c_in.title, c_in.authors, c_in.summary) # <<>>
     /\ \A sc \in {_score_by_keywords(RuleBlob(c_in.title, c_in.authors, c_in.summary))} :
           \A k \in Categories : sc[k] = 0)
        => /\ c_out.code = <<"Z">>
           /\ c_out.conf = 50

\* the position of a category in the table
TableIndex(c) == CHOOSE i \in 1..Len(CLC_ORDER) : CLC_ORDER[i] = c

\* C14: when the keyword scoring runs (the text is not empty), the category
\* returned has the maximal score, and every category before it in the
\* table has a smaller score: of several categories of maximal score the
\* first-defined one is selected.
C14_MaxScoreFirstDefined ==
    (/\ Classified
     /\ c_out.source = "rule"
     /\ RuleBlob(c_in.title, c_in.authors, c_in.summary) # <<>>)
        => \A sc \in {_score_by_keywords(RuleBlob(c_in.title, c_in.authors, c_in.summary))} :
              /\ Len(c_out.code) = 1
              /\ c_out.code[1] \in Categories
              /\ \A k \in Categories :
                    /\ sc[k] <= sc[c_out.code[1]]
                    /\ TableIndex(k) < TableIndex(c_out.code[1]) => sc[k] < sc[c_out.code[1]]

\* two categories share the maximal, positive score, and the first of the
\* table is returned
C14_Witness ==
    /\ Classified
    /\ c_out.source = "rule"
    /\ c_out.code = <<"I">>
    /\ \A sc \in {_score_by_keywords(RuleBlob(c_in.title, c_in.authors, c_in.summary))} :
          /\ sc["I"] > 0
          /\ sc["K"] = sc["I"]
          /\ \A k \in Categories : sc[k] <= sc["I"]

\* the labels of the category table
TableLabels == {CLC_LABELS[c] : c \in Categories}

\* C15: whatever the input and the external model, the code returned is
\* not empty and its label is a label of the category table, never the
\* label "unknown".
C15_NeverUnknown ==
    Classified
        => /\ Truthy(c_out.code)
           /\ c_out.label \in TableLabels
           /\ c_out.label # Unknown

\* the code parsed from the external model's answer, None without one
LlmCode(env) ==
    IF LlmUnavailable(env) THEN None
    ELSE _CLC_RE_search(Upper(Strip(OrEmpty(env.text))))

\* C16: once the catalog number has given no code, a call whose external
\* model is disabled, has no key, raises, or answers without a parsable
\* code returns exactly what classify_rule_based returns for the same
\* title, authors and summary; only when a code is parsed from the answer
\* is that code returned, with confidence 0.85 and source "llm".
C16_LlmFallsThrough ==
    (Classified /\ Len(c_used) >= 2)
        => /\ c_used[2] = "classify_llm"
           /\ c_out.source \in {"llm", "rule"}
           /\ LlmCode(c_llm) = None =>
                 /\ c_out = classify_rule_based(c_in.title, c_in.authors, c_in.summary)
                 /\ c_out.source = "rule"
                 /\ c_used = <<"_from_cip", "classify_llm", "classify_rule_based">>
           /\ LlmCode(c_llm) # None =>
                 /\ c_out.source = "llm"
                 /\ c_out.conf = 85
                 /\ c_out.code = LlmCode(c_llm)

\* the request to the external model raises, and the keyword scoring
\* answers for a title with keywords
C16_Witness ==
    /\ Classified
    /\ c_llm.enabled /\ c_llm.key /\ c_llm.raises
    /\ ~Truthy(c_in.cip)
    /\ c_out.source = "rule"
    /\ c_out.conf = 80

\* a call of split_title_author by thread r has come to its end
SplitDone(r) == s_pc[r] = "done"

\* s is empty or holds white space only
AllSpace(s) == \A i \in 1..Len(s) : IsSpace(s[i])

\* C17: split_title_author never raises, whatever the input and whatever the
\* extraction backend does, and for an empty or whitespace-only input it
\* returns the empty title and the empty author list.
C17_SplitTotal ==
    \A r \in Procs :
        SplitDone(r) =>
            /\ s_out[r].kind = "returned"
            /\ AllSpace(s_in[r]) => s_out[r].pair = Pair(<<>>, <<>>)

\* one call on a whitespace-only input has returned ("", []) and another
\* call, whose extraction raised, has returned too
C17_Witness ==
    \E r, r2 \in Procs :
        /\ SplitDone(r) /\ s_in[r] = <<" ", "u3000">>
        /\ s_out[r] = Returned(Pair(<<>>, <<>>))
        /\ SplitDone(r2) /\ s_ans[r2].raises /\ s_out[r2].kind = "returned"

\* the extraction of thread r's call produced at least one person name
HasNames(r) == \E i \in 1..Len(s_ner[r].authors) : ~AllSpace(s_ner[r].authors[i])

MingChao == <<"u660e", "u671d", "u90a3", "u4e9b", "u4e8b", "u513f">>
DangNianMingYue == <<"u5f53", "u5e74", "u660e", "u6708">>

\* C18: the authors split_title_author returns are the extractor's
\* (deduplicated) exactly when the extractor produced at least one person
\* name with a confidence of at least 0.6; in every other case (no backend,
\* a backend that raised, no names, lower confidence) the call returns the
\* rule-based pair, so that '<title> <name> 著' yields (<title>, [<name>]).
C18_Arbitration ==
    \A r \in Procs :
        SplitDone(r) /\ ~AllSpace(s_in[r]) =>
            /\ IF HasNames(r) /\ s_ner[r].confidence >= 6
               THEN s_out[r].pair.authors = _dedup_authors(s_ner[r].authors)
               ELSE s_out[r].pair = RulePair(s_text[r])
            /\ (s_in[r] = MingChao \o <<" ">> \o DangNianMingYue \o <<" ", "u8457">>
                /\ ~HasNames(r))
               => s_out[r].pair = Pair(MingChao, <<DangNianMingYue>>)

\* one call took its authors from an extractor whose confidence is exactly
\* 0.6, against a different rule-based answer, and another call, whose
\* extraction gave nothing, returned the rule-based pair of the example
C18_Witness ==
    \E r, r2 \in Procs :
        /\ SplitDone(r) /\ HasNames(r) /\ s_ner[r].confidence = 6
        /\ s_out[r].pair.authors = s_ner[r].authors
        /\ s_out[r].pair.authors # RulePair(s_text[r]).authors
        /\ SplitDone(r2) /\ s_ner[r2] = NoNerResult
        /\ s_out[r2].pair = Pair(MingChao, <<DangNianMingYue>>)

\* no two entries of the list are equal
NoRepeat(l) == \A i, j \in 1..Len(l) : l[i] = l[j] => i = j

\* a without the role suffix it ends with: 主编 as a whole, or 著, 编, 译
WithoutRole(a) ==
    IF Len(a) >= 2 /\ a[Len(a) - 1] = "u4e3b" /\ a[Len(a)] = "u7f16"
    THEN SubSeq(a, 1, Len(a) - 2)
    ELSE IF Len(a) >= 1 /\ a[Len(a)] \in {"u8457", "u7f16", "u8bd1"}
    THEN SubSeq(a, 1, Len(a) - 1)
    ELSE a

\* C19: the author list split_title_author returns, and the list
\* _dedup_authors makes of the person names of an extraction, hold no entry
\* twice and no entry that ends with a role suffix (著, 编, 译, 主编), each
\* entry being a name of the input with its role suffix stripped in full.
C19_DedupStripsRoles ==
    \A r \in Procs :
        SplitDone(r) =>
            /\ NoRepeat(s_out[r].pair.authors)
            /\ \A i \in 1..Len(s_out[r].pair.authors) :
                   ~EndsWithRole(s_out[r].pair.authors[i])
            /\ NoRepeat(s_ner[r].authors)
            /\ \A i \in 1..Len(s_ner[r].authors) :
                   /\ ~EndsWithRole(s_ner[r].authors[i])
                   /\ \E j \in 1..Len(s_ans[r].persons) :
                          s_ner[r].authors[i] =
                              WithoutRole(normalize_whitespace(s_ans[r].persons[j]))

\* C20: the load chain of _try_load_ner (hanlp, ltp, spacy) is run at most
\* once in the life of the process, under every interleaving of the threads
\* that call split_title_author, and no later call runs it again.
C20_LoadChainOnce == n_loads <= 1

\* thread r's call returns a book id in this step
ReturnsId(r) == result[r].kind = "pending" /\ result'[r].kind = "id"

\* C21: a call of search_and_ingest that returns a book id has appended
\* exactly one Source row, which references the returned book and the
\* provider whose detail was accepted, on every path that returns an id,
\* the one after an IntegrityError included.
C21_ReturnStep ==
    \A r \in Procs :
        ReturnsId(r) =>
            sources' = Append(sources, Source(result'[r].id, PROVIDERS[prov[r]]))

C21_OneSourcePerReturnedId == [][C21_ReturnStep]_vars

\* the ids of the Book rows a Source row of srcs references
Referenced(srcs) == {srcs[i].book_id : i \in 1..Len(srcs)}

\* the rows of srcs are the first rows of later
Extends(srcs, later) ==
    Len(srcs) <= Len(later) /\ SubSeq(later, 1, Len(srcs)) = srcs

\* C22: every Source row references an existing Book; the deletion of a
\* Book removes all the Source rows of that book and no other; every other
\* step (every step of a resolution) leaves the existing Source rows as they
\* are and at most appends to them.
C22_Step ==
    IF \E b \in books : \A b2 \in books' : b2.id # b.id
    THEN sources' = SelectSeq(sources, LAMBDA s : \E b2 \in books' : b2.id = s.book_id)
    ELSE Extends(sources, sources')

C22_SourcesFollowBooks ==
    /\ [](Referenced(sources) \subseteq {b.id : b \in books})
    /\ [][C22_Step]_vars

\* book 1 was deleted with its Source row, and book 2 is there with its own
C22_Witness ==
    /\ {b.id : b \in books} = {2}
    /\ Len(sources) = 1
    /\ sources[1].book_id = 2

\* C23: when an ISBN was derived from the query and the call returns a book
\* id, the returned book's ISBN is the derived one once both are normalised
\* (hyphens removed, upper case): a detail with another ISBN is not
\* persisted, and a detail without ISBN is persisted under the derived one.
C23_Step ==
    \A r \in Procs :
        (ReturnsId(r) /\ Truthy(isbn_input[r])) =>
            \E b \in books' :
                /\ b.id = result'[r].id
                /\ b.isbn # None
                /\ NormIsbn(b.isbn) = NormIsbn(isbn_input[r])

C23_ReturnedIsbnIsDerived == [][C23_Step]_vars

\* a call on the query 702000220x has returned a book that carries the
\* ISBN as the query wrote it: the provider's detail had none
C23_Witness ==
    \E r \in Procs :
        /\ result[r].kind = "id" /\ isbn_input[r] = Isbnx
        /\ \E b \in books : b.id = result[r].id /\ b.isbn = Isbnx

\* the search strings in the order title, title + " " + first author, raw
\* query, from the pair the split gave
SearchStrings ==
    LET t == l_split.title
        a == Author1(l_split.authors)
    IN  (IF t # <<>> THEN <<t>> ELSE <<>>)
        \o (IF t # <<>> /\ a # <<>> THEN <<t \o <<" ">> \o a>> ELSE <<>>)
        \o <<l_query>>

\* the search calls made to the provider at hand, in order
SearchCalls == SelectSeq(l_log, LAMBDA c : c.line = 153)

\* C24: within one provider the calls follow a fixed order: the direct
\* lookup with the derived ISBN is the first call when an ISBN was derived,
\* and only then; a search is called only when no earlier call gave a
\* detail, the searches take the strings title, title + " " + first author,
\* raw query in that order; a call made for a search result follows the
\* search that gave it; no call follows the first detail.
C24_FixedCallOrder ==
    /\ \A k \in 1..Len(l_log) :
          /\ l_log[k].line = 148 =>
                k = 1 /\ Truthy(l_isbn) /\ l_log[k].arg = l_isbn
          /\ l_log[k].line = 153 =>
                \A j \in 1..(k - 1) : l_log[j].gave \in {"none", "results"}
          /\ l_log[k].line \in {156, 158} =>
                k > 1 /\ l_log[k - 1].line = 153 /\ l_log[k - 1].gave = "results"
          /\ l_log[k].gave = "detail" => k = Len(l_log)
    /\ Truthy(l_isbn) /\ l_log # <<>> => l_log[1].line = 148
    /\ Len(SearchCalls) <= Len(SearchStrings)
    /\ \A i \in 1..Len(SearchCalls) : SearchCalls[i].arg = SearchStrings[i]

\* a provider was asked by ISBN, then with every one of three search
\* strings, the last of which led to a detail
C24_Witness ==
    /\ Len(l_log) >= 5
    /\ l_log[1].line = 148
    /\ Len(SearchCalls) = 3
    /\ SearchCalls[1].arg # SearchCalls[2].arg
    /\ l_log[Len(l_log)].gave = "detail"

\* the calls of one resolve are bounded: the loop enters each configured
\* provider at most once and in the configured order; to one provider it
\* makes at most one direct lookup, and its i-th search is the search of the
\* i-th search string, of which there are at most three
C27_Bounded ==
    /\ NoRepeat(l_visited)
    /\ \A i \in 1..Len(l_visited) : l_visited[i] = i /\ i <= Len(PROVIDERS)
    /\ Cardinality({k \in 1..Len(l_log) : l_log[k].line = 148}) <= 1
    /\ \A k \in 1..Len(l_log) : l_log[k].line = 148 => l_log[k].arg = l_isbn
    /\ Len(SearchStrings) <= 3
    /\ Len(SearchCalls) <= Len(SearchStrings)
    /\ \A i \in 1..Len(SearchCalls) : SearchCalls[i].arg = SearchStrings[i]
    /\ Len(l_log) <= 1 + 2 * 3

C25_Step ==
    /\ \A r \in Procs :
          ReturnsId(r) =>
             \E b \in books' : b.id = result'[r].id /\ Truthy(b.clc)
    /\ \A r \in Procs :
          pc'[r] = "commit" /\ Truthy(book'[r].orig.clc) =>
             book'[r].cur.clc = book'[r].orig.clc
    /\ \A b \in books : \A c \in books' :
          c.id = b.id /\ Truthy(b.clc) => c.clc = b.clc

\* C25: the category of a book is set once: a returned id is the id of a
\* book with a non-empty category; the classifier's code is taken only for
\* a book without category; a book with a category keeps exactly that
\* category through every later resolve, whatever the detail holds.
C25_CategorySetOnce == [][C25_Step]_vars

\* a later resolve brought the catalogue number I2 to a book classified
\* under T: the book was returned with its first category
C25_Witness ==
    \E r \in Procs : \E b \in books :
        /\ result[r].kind = "id"
        /\ b.id = result[r].id
        /\ b.cip = <<"I", "2">>
        /\ Truthy(b.clc)
        /\ b.clc[1] = "T"

\* keyword hits counted when comparing confidences of two scores
MaxHits == 5

\* the score (times 10) the keyword hits of category c give in blob: 1.0 a
\* hit, 1.2 a hit for T, O, Q, R, P, S, X
WeightedHits(c, blob) ==
    Cardinality({kw \in KEYWORDS[c] : Contains(Lower(blob), Lower(kw))})
        * (IF c \in {"T", "O", "Q", "R", "P", "S", "X"} THEN 12 ELSE 10)

\* the confidence (times 100) of a positive score (times 10)
StepConfidence(score) ==
    IF score < 20 THEN 65 ELSE IF score < 40 THEN 80 ELSE 92

C28_Step ==
    (books' # books \/ sources' # sources) => \E r \in Procs : ReturnsId(r)

\* C28: a resolve call that returns none has left the store as it was: the
\* rows change only in the step that makes a call return an id, so a call
\* that goes through empty results, exceptions, mismatches and rolled-back
\* writes to "return None" has created, modified and deleted nothing.
C28_NoneLeavesStore == [][C28_Step]_vars

\* a call returned none after a provider's exception and a write that was
\* rolled back
C28_Witness ==
    \E r \in Procs :
        /\ result[r].kind = "none"
        /\ "unpersisted" \in Outcomes(r)
        /\ Outcomes(r) \cap {"exception", "mismatch", "no_detail"} # {}

\* every Book row has a Source row
EachBookHasSource ==
    \A b \in books : \E i \in 1..Len(sources) : sources[i].book_id = b.id

\* the rows change together or not at all: a step that writes a book
\* appends a Source, a Source is appended for the book of the id the step
\* returns, and the step of an IntegrityError (the thread goes to its
\* re-read) leaves the books and the sources as they were
C29_Step ==
    /\ books' # books => sources' # sources
    /\ sources' # sources =>
          \E r \in Procs :
             /\ ReturnsId(r)
             /\ Len(sources') = Len(sources) + 1
             /\ SubSeq(sources', 1, Len(sources)) = sources
             /\ Last(sources').book_id = result'[r].id
             /\ \E b \in books' : b.id = result'[r].id
    /\ \A r \in Procs :
          pc[r] \in {"insert", "commit"} /\ pc'[r] = "reread" =>
             books' = books /\ sources' = sources

\* C29: the book write, its category and its provenance entry of one
\* accepted detail are committed in one transaction or not at all: in every
\* committed state each Book row has at least one Source row, and a
\* uniqueness violation leaves nothing of the failed attempt in the store.
C29_AllOrNothing == []EachBookHasSource /\ [][C29_Step]_vars

\* a thread's INSERT met the row another thread had committed
C29_Witness ==
    \E r \in Procs :
        /\ pc[r] = "reread"
        /\ \E b \in books : b.isbn = IsbnKey(detail[r])

CoversDir == <<"c", "o", "v", "e", "r", "s", "/">>

\* the cover path is set at most once per book: a row with a cover path
\* keeps it, and a path that is set is a relative path under covers/
C30_Step ==
    \A b \in books : \A c \in books' :
        c.id = b.id =>
           /\ Truthy(b.cover_path) => c.cover_path = b.cover_path
           /\ c.cover_path # b.cover_path =>
                 /\ Len(c.cover_path) > Len(CoversDir)
                 /\ SubSeq(c.cover_path, 1, Len(CoversDir)) = CoversDir

\* C30: the stored cover path is first-wins: resolve sets it only for a
\* book that has none, to the non-empty path covers/... the fetch returned,
\* and a book that has a cover path keeps it through every later resolve.
C30_CoverFirstWins == [][C30_Step]_vars

====
